---- MODULE Spec2Model ----
(***************************************************************************)
(* A model of the messaging core of kxgames/GameEngine.                    *)
(*                                                                         *)
(*   modules/messaging.py   Forum: subscribe, publish, lock, unlock,       *)
(*                          setup, update, teardown                        *)
(*   kxg/messages.py        Message: token lists and sender provenance,    *)
(*                          error state, check, execute and undo           *)
(*                                                                         *)
(* Forum.update() is modelled statement by statement, one action per       *)
(* queue operation or pipe call, because Forum.publish() may run on        *)
(* another thread while update() runs: the position of update() is the     *)
(* variable pc, and Publish is enabled at every position.  All other       *)
(* operations belong to the thread that runs update() and are enabled      *)
(* only between two updates (pc = "idle").                                 *)
(*                                                                         *)
(* The pipes (module `network`) are not part of the sources; they are      *)
(* modelled from their interface: send() stamps a fresh tag and buffers,   *)
(* resend() buffers with the given tag, deliver() flushes a prefix of the  *)
(* buffer, receive() hands over whatever packets the network produced.     *)
(*                                                                         *)
(* The world, its tokens, the id factories and the relaying side of a      *)
(* network game (kxg.tokens, kxg.forums, kxg.actors) are not part of the   *)
(* sources either; they are modelled from their description and from the   *)
(* way tests/test_tokens.py and kxg/messages.py use them.                  *)
(***************************************************************************)
EXTENDS Integers, Sequences, FiniteSets, TLC

(* ------------------------------ bounds -------------------------------- *)

\* Number of messages published locally during one run.
MaxPub == 1
\* Number of packets the network hands over during one run.
MaxPackets == 2
\* Number of packets handed over to a forum that only relays.
MaxRelayed == 3
\* Number of subscribe() calls during one run.
MaxSubs == 2
\* Longest token list given to a message.
MaxTokens == 2
\* Number of ids one id factory issues during one run.
MaxIds == 2
\* Messages published with a delay, the longest delay and the longest tick.
MaxTimed == 2
MaxDelay == 2
MaxTime == 2
\* The exchanges a conversation is constructed with.
MaxExchanges == 2
\* Messages published by a forum whose peers relay them back.
MaxEchoed == 2
\* The largest number a player guesses.
MaxGuess == 6
\* The messages published in the network of forums.
MaxNetPub == 2

(* ------------------------- values of the model ------------------------ *)

\* self.target = 1
ForumTarget == 1

AllPipes == {"P1", "P2"}
Flavors == {"A", "B"}
\* The types of the messages that arrive from the network.
RemoteFlavors == {"A"}
\* The tickers carried by incoming packets.
Tickers == {1, 2}
Callbacks == {"f", "g"}
\* The identity of this side of every pipe of the forum.
ForumIdentity == 1
\* The identities of the peers whose messages arrive over the pipes.
Origins == {2, 3}

\* pipe = tag = None
None == "None"
NoTag == << >>

\* Pipe.get_identity()
Identity(p) == ForumIdentity

\* The argument lists setup(*pipes) is called with.
PipeLists == {<< >>, <<"P1">>, <<"P2">>, <<"P1", "P2">>, <<"P2", "P1">>}

Range(s) == {s[i] : i \in 1..Len(s)}

\* dict.get(key, default)
DictGet(d, k, default) == IF k \in DOMAIN d THEN d[k] ELSE default

\* d[k] = v
DictSet(d, k, v) == [x \in (DOMAIN d) \cup {k} |-> IF x = k THEN v ELSE d[x]]

\* {}
EmptyDict == [x \in {} |-> 0]

VARIABLES
    \* Forum
    pipes,          \* self.pipes: list of pipes
    history,        \* self.history: dict origin -> ticker
    subscriptions,  \* self.subscriptions: dict flavor -> list of callbacks
    publications,   \* self.publications: FIFO queue of (pipe, tag, message)
    locked,         \* self.locked
    \* the running update()
    pc,             \* "idle", "recv", "drain", "flush"
    idx,            \* index into self.pipes of the running for-loop
    target,         \* the local variable `target` of update()
    \* pipes
    registered,     \* pipe -> targets given to register()
    outbox,         \* pipe -> buffered (tag, message), oldest first
    ticker,         \* pipe -> last ticker stamped by send()
    \* environment budgets
    nPub,           \* messages published so far (serial number of a message)
    nRecv,          \* packets received so far
    nSubs,          \* subscribe() calls so far
    \* observations
    last,           \* the last operation and how it ended
    invoked,        \* callbacks run by the last step, in order, with the message
    stale,          \* (flavor, callback) subscriptions cleared and not made again
    handled,        \* how often each message was handed to the subscribers
    \* Message
    tokens_to_add,
    tokens_to_remove,
    sender_id,
    mlast,
    error_state,    \* self._error_state, {} while the attribute is absent
    \* Tokens and the world
    token_id,       \* token -> token._id
    token_reg,      \* token -> registration state of the token
    world_tokens,   \* world._tokens: dict id -> token
    world_locked,   \* whether the world refuses read-write access
    num_ids_assigned, \* id factory -> ids it has issued
    overrides,      \* whether the message type defines on_hard_sync_error
    \* observations
    wlast,          \* the last world, token or message-protocol operation
    wret,           \* what it returned
    wanswer,        \* what the hook it asked answered
    whooks,         \* the hooks of the message it invoked, in order
    wseen,          \* the ids in the world when its on_execute hook ran
    world_before,   \* the ids in the world before the last _execute
    accepted,       \* the last _check passed and the world is as it was then
    checker,        \* the actor whose id factory the last _check was given, if any
    \* The participants of a game over the network
    inbox,          \* client -> error states of the copies relayed to it
    ran,            \* client -> what its forum ran for the message, in order
    \* Timer
    pending,        \* self.pending: (delay, message) packages, oldest first
    nTimed,         \* messages published with a delay so far
    tlast,          \* the last operation of the timer and how it ended
    \* Exchanges and conversations
    built,          \* the objects whose construction has returned
    complete,       \* exchange -> exchange.complete
    successors,     \* exchange -> exchange.successors
    inform_message, \* the message an Inform exchange was given
    client_groups,  \* the exchanges whose callbacks the client holds
    client_queue,   \* what client.queue() was given, oldest first
    clast,          \* the last operation on an exchange or a conversation
    active,         \* self.exchanges of the conversation, empty while unbound
    \* Serializer
    attribute,      \* instance -> token.attribute
    parent,         \* instance -> token.parent, empty for no parent
    allocated,      \* the instances unpack() has made
    packed,         \* what pack() returned last, until it is unpacked
    source,         \* the token pack() was given
    unpacked,       \* what unpack() returned last
    slast,          \* the last operation of the serializers
    \* The world of the number guessing game
    number,         \* world.number
    lower_bound,    \* world.lower_bound
    upper_bound,    \* world.upper_bound
    winner,         \* world.winner
    game_over,      \* whether world.end_game() was called
    glast,          \* the last message executed on the world of the game
    \* A message on its way through pickle
    pickled,        \* what __getstate__ returned last, empty before
    was_sent_flag,  \* whether the message has the attribute _was_sent
    \* A network of forums
    net,            \* forum -> its history, queue, buffers, tickers, deliveries
    wire,           \* (from, to) -> packets sent and not yet received
    publishers      \* the forums that published, in the order of publishing

forumVars == <<pipes, history, subscriptions, publications, locked, pc, idx,
               target, registered, outbox, ticker, nPub, nRecv, nSubs, last,
               invoked, stale, handled>>
msgVars == <<tokens_to_add, tokens_to_remove, sender_id, mlast>>
worldVars == <<error_state, token_id, token_reg, world_tokens, world_locked,
               num_ids_assigned, overrides, wlast, wret, wanswer, whooks, wseen,
               world_before, accepted, checker>>
remoteVars == <<inbox, ran>>
timerVars == <<pending, nTimed, tlast>>
exchangeVars == <<built, complete, successors, inform_message, client_groups,
                  client_queue, clast, active>>
serializerVars == <<attribute, parent, allocated, packed, source, unpacked,
                    slast>>
guessVars == <<number, lower_bound, upper_bound, winner, game_over, glast>>
pickleVars == <<pickled, was_sent_flag>>
netVars == <<net, wire, publishers>>
extraVars == <<guessVars, pickleVars, netVars>>
vars == <<forumVars, msgVars, worldVars, remoteVars, timerVars, exchangeVars,
          serializerVars, extraVars>>

\* What a Forum operation leaves alone outside the forum.
ForumFrame == UNCHANGED <<msgVars, worldVars, remoteVars, timerVars,
                          exchangeVars, serializerVars, extraVars>>
\* What an operation on the token lists of a Message leaves alone.
MessageFrame == UNCHANGED <<forumVars, worldVars, remoteVars, timerVars,
                            exchangeVars, serializerVars, extraVars>>
\* What an operation on the world and its tokens leaves alone.
WorldFrame == UNCHANGED <<forumVars, tokens_to_add, tokens_to_remove,
                          sender_id, mlast, remoteVars, timerVars,
                          exchangeVars, serializerVars, extraVars>>

Op(name, err, arg) == [op |-> name, err |-> err, arg |-> arg]
Ok == "ok"
AssertionError == "AssertionError"
AttributeError == "AttributeError"
TypeError == "TypeError"

LocalMessage(f, n) == [flavor |-> f, id |-> n]
RemoteMessage(f) == [flavor |-> f, id |-> 0]

(* ------------------------------- Forum -------------------------------- *)

\* Forum.__init__ with no pipes.
ForumInit ==
    /\ pipes = << >>
    /\ history = EmptyDict
    /\ subscriptions = EmptyDict
    /\ publications = << >>
    /\ locked = FALSE
    /\ pc = "idle"
    /\ idx = 0
    /\ target = ForumTarget
    /\ registered = [p \in AllPipes |-> {}]
    /\ outbox = [p \in AllPipes |-> << >>]
    /\ ticker = [p \in AllPipes |-> 0]
    /\ nPub = 0
    /\ nRecv = 0
    /\ nSubs = 0
    /\ last = Op("init", Ok, << >>)
    /\ invoked = << >>
    /\ stale = {}
    /\ handled = EmptyDict

\* The (flavor, callback) pairs of a subscription map.
Subscribed(subs) ==
    UNION {{<<f, subs[f][i]>> : i \in 1..Len(subs[f])} : f \in DOMAIN subs}

\* Forum.subscribe(flavor, callback)
Subscribe_NoAssert(f, cb) ==
    /\ pc = "idle"
    /\ nSubs < MaxSubs
    /\ nSubs' = nSubs + 1
    /\ subscriptions' = DictSet(subscriptions, f,
                                Append(DictGet(subscriptions, f, << >>), cb))
    /\ stale' = stale \ {<<f, cb>>}
    /\ last' = Op("subscribe", Ok, <<f, cb>>)
    /\ invoked' = << >>
    /\ UNCHANGED <<pipes, history, publications, locked, pc, idx, target,
                   registered, outbox, ticker, nPub, nRecv, handled>>
    /\ ForumFrame

Subscribe(f, cb) ==
    /\ pc = "idle"
    /\ nSubs < MaxSubs
    /\ nSubs' = nSubs + 1
    /\ IF locked
       THEN /\ last' = Op("subscribe", AssertionError, <<f, cb>>)
            /\ UNCHANGED <<subscriptions, stale>>
       ELSE /\ subscriptions' =
                   DictSet(subscriptions, f,
                           Append(DictGet(subscriptions, f, << >>), cb))
            /\ stale' = stale \ {<<f, cb>>}
            /\ last' = Op("subscribe", Ok, <<f, cb>>)
    /\ invoked' = << >>
    /\ UNCHANGED <<pipes, history, publications, locked, pc, idx, target,
                   registered, outbox, ticker, nPub, nRecv, handled>>
    /\ ForumFrame

\* flavor = type(message); callbacks = self.subscriptions.get(flavor, [])
CallbacksFor_Reversed(subs, message) ==
    LET cbs == DictGet(subs, message.flavor, << >>)
    IN  [i \in 1..Len(cbs) |-> cbs[Len(cbs) + 1 - i]]

CallbacksFor(subs, message) == DictGet(subs, message.flavor, << >>)

\* for callback in callbacks: callback(message)
Invocations(callbacks, message) ==
    [i \in 1..Len(callbacks) |-> <<callbacks[i], message>>]

\* What identifies the message of a publication: (origin, ticker) of its tag,
\* or (0, serial number) when it was published locally.
Key(publication) ==
    IF publication[2] = NoTag
    THEN <<0, publication[3].id>>
    ELSE <<publication[2][2], publication[2][3]>>

Counted(bag, key) == DictSet(bag, key, DictGet(bag, key, 0) + 1)

\* Forum.publish(message), from any thread.
Publish_Immediate(f) ==
    LET publication == <<None, NoTag, LocalMessage(f, nPub + 1)>>
    IN  /\ nPub < MaxPub
        /\ nPub' = nPub + 1
        /\ invoked' = Invocations(CallbacksFor(subscriptions, publication[3]),
                                  publication[3])
        /\ handled' = Counted(handled, Key(publication))
        /\ last' = Op("publish", Ok, publication)
        /\ UNCHANGED <<pipes, history, subscriptions, publications, locked, pc,
                       idx, target, registered, outbox, ticker, nRecv, nSubs,
                       stale>>
        /\ ForumFrame

Publish_Lost(f) ==
    LET publication == <<None, NoTag, LocalMessage(f, nPub + 1)>>
    IN  /\ nPub < MaxPub
        /\ nPub' = nPub + 1
        /\ publications' = IF pc = "drain"
                           THEN publications
                           ELSE Append(publications, publication)
        /\ last' = Op("publish", Ok, publication)
        /\ invoked' = << >>
        /\ UNCHANGED <<pipes, history, subscriptions, locked, pc, idx, target,
                       registered, outbox, ticker, nRecv, nSubs, stale, handled>>
        /\ ForumFrame

Published(f, budget) ==
    LET publication == <<None, NoTag, LocalMessage(f, nPub + 1)>>
    IN  /\ nPub < budget
        /\ nPub' = nPub + 1
        /\ publications' = Append(publications, publication)
        /\ last' = Op("publish", Ok, publication)
        /\ invoked' = << >>
        /\ UNCHANGED <<pipes, history, subscriptions, locked, pc, idx, target,
                       registered, outbox, ticker, nRecv, nSubs, stale, handled>>
        /\ ForumFrame

Publish(f) == Published(f, MaxPub)

\* Forum.lock()
Lock ==
    /\ pc = "idle"
    /\ locked' = TRUE
    /\ last' = Op("lock", Ok, << >>)
    /\ invoked' = << >>
    /\ UNCHANGED <<pipes, history, subscriptions, publications, pc, idx, target,
                   registered, outbox, ticker, nPub, nRecv, nSubs, stale,
                   handled>>
    /\ ForumFrame

\* Forum.unlock()
Unlock_Pause ==
    /\ pc = "idle"
    /\ locked' = FALSE
    /\ stale' = stale \cup Subscribed(subscriptions)
    /\ last' = Op("unlock", Ok, << >>)
    /\ invoked' = << >>
    /\ UNCHANGED <<pipes, history, subscriptions, publications, pc, idx, target,
                   registered, outbox, ticker, nPub, nRecv, nSubs, handled>>
    /\ ForumFrame

Unlock ==
    /\ pc = "idle"
    /\ locked' = FALSE
    /\ subscriptions' = EmptyDict
    /\ publications' = << >>
    /\ stale' = stale \cup Subscribed(subscriptions)
    /\ last' = Op("unlock", Ok, << >>)
    /\ invoked' = << >>
    /\ UNCHANGED <<pipes, history, pc, idx, target, registered, outbox, ticker,
                   nPub, nRecv, nSubs, handled>>
    /\ ForumFrame

\* Forum.setup(*pipes)
Setup(ps) ==
    /\ pc = "idle"
    /\ Range(ps) \cap Range(pipes) = {}
    /\ IF locked
       THEN /\ last' = Op("setup", AssertionError, << >>)
            /\ UNCHANGED <<pipes, registered>>
       ELSE /\ pipes' = pipes \o ps
            /\ registered' = [p \in AllPipes |->
                               IF p \in Range(ps)
                               THEN registered[p] \cup {ForumTarget}
                               ELSE registered[p]]
            /\ last' = Op("setup", Ok, << >>)
    /\ invoked' = << >>
    /\ UNCHANGED <<history, subscriptions, publications, locked, pc, idx, target,
                   outbox, ticker, nPub, nRecv, nSubs, stale, handled>>
    /\ ForumFrame

\* Forum.teardown()
Teardown_KeepsHistory ==
    /\ pc = "idle"
    /\ pipes' = << >>
    /\ subscriptions' = EmptyDict
    /\ publications' = << >>
    /\ locked' = FALSE
    /\ stale' = stale \cup Subscribed(subscriptions)
    /\ last' = Op("teardown", Ok, << >>)
    /\ invoked' = << >>
    /\ UNCHANGED <<history, pc, idx, target, registered, outbox, ticker, nPub,
                   nRecv, nSubs, handled>>
    /\ ForumFrame

Teardown ==
    /\ pc = "idle"
    /\ pipes' = << >>
    /\ history' = EmptyDict
    /\ subscriptions' = EmptyDict
    /\ publications' = << >>
    /\ locked' = FALSE
    /\ stale' = stale \cup Subscribed(subscriptions)
    /\ last' = Op("teardown", Ok, << >>)
    /\ invoked' = << >>
    /\ UNCHANGED <<pc, idx, target, registered, outbox, ticker, nPub, nRecv,
                   nSubs, handled>>
    /\ ForumFrame

(* --------------------------- Forum.update() --------------------------- *)

\* assert self.locked; target = self.target
UpdateBegin_NoAssert ==
    /\ pc = "idle"
    /\ target' = ForumTarget
    /\ pc' = IF pipes = << >> THEN "drain" ELSE "recv"
    /\ idx' = 1
    /\ last' = Op("update", Ok, << >>)
    /\ invoked' = << >>
    /\ UNCHANGED <<stale, pipes, history, subscriptions, publications, locked,
                   registered, outbox, ticker, nPub, nRecv, nSubs, handled>>
    /\ ForumFrame

UpdateBegin ==
    /\ pc = "idle"
    /\ IF ~locked
       THEN /\ last' = Op("update", AssertionError, << >>)
            /\ UNCHANGED <<pc, idx, target>>
       ELSE /\ target' = ForumTarget
            /\ pc' = IF pipes = << >> THEN "drain" ELSE "recv"
            /\ idx' = 1
            /\ last' = Op("update", Ok, << >>)
    /\ invoked' = << >>
    /\ UNCHANGED <<stale, pipes, history, subscriptions, publications, locked,
                   registered, outbox, ticker, nPub, nRecv, nSubs, handled>>
    /\ ForumFrame

\* if ticker > old_ticker
Accepts_Equal(tk, old) == tk >= old

Accepts(tk, old) == tk > old

\* One iteration of `for tag, flavor, message in pipe.receive(target)`:
\* the pipe of the running loop hands over one more packet.
ReceivePacket(tgt, origin, tk, f) ==
    LET pipe == pipes[idx]
        tag == <<tgt, origin, tk>>
        old_ticker == DictGet(history, origin, 0)
    IN  /\ pc = "recv"
        /\ nRecv' = nRecv + 1
        /\ target' = tgt
        /\ IF Accepts(tk, old_ticker)
           THEN /\ publications' =
                       Append(publications, <<pipe, tag, RemoteMessage(f)>>)
                /\ history' = DictSet(history, origin, tk)
           ELSE UNCHANGED <<publications, history>>
        /\ last' = Op("receive", Ok, <<pipe, tag, RemoteMessage(f)>>)
        /\ invoked' = << >>
        /\ UNCHANGED <<stale, pipes, subscriptions, locked, pc, idx, registered,
                       outbox, ticker, nPub, nSubs, handled>>
        /\ ForumFrame

\* pipe.receive(target) has no more packets: the outer loop goes to the next
\* pipe, and after the last pipe update() goes on to the publication queue.
ReceiveEnd ==
    /\ pc = "recv"
    /\ IF idx < Len(pipes)
       THEN /\ idx' = idx + 1
            /\ UNCHANGED pc
       ELSE /\ idx' = 0
            /\ pc' = "drain"
    /\ last' = Op("receive_end", Ok, << >>)
    /\ invoked' = << >>
    /\ UNCHANGED <<stale, pipes, history, subscriptions, publications, locked, target,
                   registered, outbox, ticker, nPub, nRecv, nSubs, handled>>
    /\ ForumFrame

\* for pipe in self.pipes: if pipe is not sender:
\*     if tag: pipe.resend(tag, message)   else: pipe.send(target, message)
RelayTag(p, tag) ==
    IF tag # NoTag THEN tag ELSE <<target, Identity(p), ticker[p] + 1>>

Relayed_All(p, sender) == p \in Range(pipes)

Relayed(p, sender) == p \in Range(pipes) /\ p # sender

\* One iteration of the `while True` loop with a publication on the queue.
DrainOne ==
    /\ pc = "drain"
    /\ publications # << >>
    /\ LET publication == Head(publications)
           sender == publication[1]
           tag == publication[2]
           message == publication[3]
           callbacks == CallbacksFor(subscriptions, message)
       IN  /\ publications' = Tail(publications)
           /\ invoked' = Invocations(callbacks, message)
           /\ handled' = Counted(handled, Key(publication))
           /\ outbox' = [p \in AllPipes |->
                          IF Relayed(p, sender)
                          THEN Append(outbox[p], <<RelayTag(p, tag), message>>)
                          ELSE outbox[p]]
           /\ ticker' = [p \in AllPipes |->
                          IF Relayed(p, sender) /\ tag = NoTag
                          THEN ticker[p] + 1
                          ELSE ticker[p]]
           /\ last' = Op("deliver", Ok, publication)
    /\ UNCHANGED <<stale, pipes, history, subscriptions, locked, pc, idx, target,
                   registered, nPub, nRecv, nSubs>>
    /\ ForumFrame

\* except queue.Empty: break
DrainEmpty_Early ==
    /\ pc = "drain"
    /\ IF pipes = << >>
       THEN /\ pc' = "idle"
            /\ idx' = 0
       ELSE /\ pc' = "flush"
            /\ idx' = 1
    /\ last' = Op("empty", Ok, << >>)
    /\ invoked' = << >>
    /\ UNCHANGED <<stale, pipes, history, subscriptions, publications, locked, target,
                   registered, outbox, ticker, nPub, nRecv, nSubs, handled>>
    /\ ForumFrame

DrainEmpty ==
    /\ pc = "drain"
    /\ publications = << >>
    /\ IF pipes = << >>
       THEN /\ pc' = "idle"
            /\ idx' = 0
       ELSE /\ pc' = "flush"
            /\ idx' = 1
    /\ last' = Op("empty", Ok, << >>)
    /\ invoked' = << >>
    /\ UNCHANGED <<stale, pipes, history, subscriptions, publications, locked, target,
                   registered, outbox, ticker, nPub, nRecv, nSubs, handled>>
    /\ ForumFrame

\* for tag, flavor, message in pipe.deliver(): self.history[origin] = ticker
RECURSIVE ApplyDelivered(_, _)
ApplyDelivered(h, items) ==
    IF items = << >>
    THEN h
    ELSE LET tag == Head(items)[1]
         IN  ApplyDelivered(DictSet(h, tag[2], tag[3]), Tail(items))

\* One iteration of the last loop: pipe.deliver() flushes the first k
\* buffered items and returns them.
FlushPipe(k) ==
    LET pipe == pipes[idx]
        delivered == SubSeq(outbox[pipe], 1, k)
    IN  /\ pc = "flush"
        /\ k \in 0..Len(outbox[pipe])
        /\ outbox' = [outbox EXCEPT ![pipe] = SubSeq(@, k + 1, Len(@))]
        /\ history' = ApplyDelivered(history, delivered)
        /\ target' = IF k = 0 THEN target ELSE delivered[k][1][1]
        /\ IF idx < Len(pipes)
           THEN /\ idx' = idx + 1
                /\ UNCHANGED pc
           ELSE /\ idx' = 0
                /\ pc' = "idle"
        /\ last' = Op("flush", Ok, << >>)
        /\ invoked' = << >>
        /\ UNCHANGED <<stale, pipes, subscriptions, publications, locked, registered,
                       ticker, nPub, nRecv, nSubs, handled>>
        /\ ForumFrame

(* ------------------------------ Message ------------------------------- *)

Tokens == {"t1", "t2"}
NonToken == "not a token"
\* The identities an id factory hands out; 0 is the referee.
ActorIds == {0, 1, 2}
\* sender_id holds the value of the attribute self.sender_id, and is empty
\* while the message has no such attribute.
Unset == {}
MessageAlreadySent == "MessageAlreadySent"
ApiUsageError == "ApiUsageError"

RECURSIVE SeqsUpTo(_, _)
SeqsUpTo(S, n) ==
    IF n = 0
    THEN {<< >>}
    ELSE LET shorter == SeqsUpTo(S, n - 1)
         IN  shorter \cup {Append(s, x) : s \in shorter, x \in S}

\* The lists add_tokens() and remove_tokens() are called with.
TokenLists == SeqsUpTo(Tokens \cup {NonToken}, MaxTokens)

\* Message.__init__
MessageInit ==
    /\ tokens_to_add = << >>
    /\ tokens_to_remove = << >>
    /\ sender_id = Unset
    /\ mlast = Op("init", Ok, << >>)

\* Message.was_sent
was_sent_Never == FALSE

was_sent == sender_id # Unset

\* tokens.require_token(token)
require_token(token) == token \in Tokens

\* Message.add_token(token)
add_token(token) ==
    /\ Len(tokens_to_add) < MaxTokens
    /\ IF ~require_token(token)
       THEN /\ mlast' = Op("add_token", ApiUsageError, <<token>>)
            /\ UNCHANGED tokens_to_add
       ELSE IF was_sent
       THEN /\ mlast' = Op("add_token", MessageAlreadySent, <<token>>)
            /\ UNCHANGED tokens_to_add
       ELSE /\ tokens_to_add' = Append(tokens_to_add, token)
            /\ mlast' = Op("add_token", Ok, <<token>>)
    /\ UNCHANGED <<tokens_to_remove, sender_id>>
    /\ MessageFrame

\* Message.add_tokens(tokens)
add_tokens(tokens) ==
    /\ Len(tokens_to_add) + Len(tokens) <= MaxTokens
    /\ IF was_sent
       THEN /\ mlast' = Op("add_tokens", MessageAlreadySent, tokens)
            /\ UNCHANGED tokens_to_add
       ELSE /\ tokens_to_add' = tokens_to_add \o tokens
            /\ mlast' = Op("add_tokens", Ok, tokens)
    /\ UNCHANGED <<tokens_to_remove, sender_id>>
    /\ MessageFrame

\* Message.remove_token(token)
remove_token(token) ==
    /\ Len(tokens_to_remove) < MaxTokens
    /\ IF ~require_token(token)
       THEN /\ mlast' = Op("remove_token", ApiUsageError, <<token>>)
            /\ UNCHANGED tokens_to_remove
       ELSE IF was_sent
       THEN /\ mlast' = Op("remove_token", MessageAlreadySent, <<token>>)
            /\ UNCHANGED tokens_to_remove
       ELSE /\ tokens_to_remove' = Append(tokens_to_remove, token)
            /\ mlast' = Op("remove_token", Ok, <<token>>)
    /\ UNCHANGED <<tokens_to_add, sender_id>>
    /\ MessageFrame

\* Message.remove_tokens(tokens)
remove_tokens(tokens) ==
    /\ Len(tokens_to_remove) + Len(tokens) <= MaxTokens
    /\ IF was_sent
       THEN /\ mlast' = Op("remove_tokens", MessageAlreadySent, tokens)
            /\ UNCHANGED tokens_to_remove
       ELSE /\ tokens_to_remove' = tokens_to_remove \o tokens
            /\ mlast' = Op("remove_tokens", Ok, tokens)
    /\ UNCHANGED <<tokens_to_add, sender_id>>
    /\ MessageFrame

\* Message._set_sender_id(sender_id): self.sender_id = sender_id.get()
set_sender_id(id) ==
    /\ sender_id' = {id}
    /\ mlast' = Op("_set_sender_id", Ok, << >>)
    /\ UNCHANGED <<tokens_to_add, tokens_to_remove>>
    /\ MessageFrame

(* ------------------------ tokens and the world ------------------------ *)

\* Token.__init__: the token has no id yet.
NoId == -1
\* The actors whose id factories issue the ids of the tokens.
Factories == {1, 2}
\* The participants that play over the network; actor 0 is the referee.
Clients == {1, 2, 3}
\* The distance between two ids of one factory: one id space per actor.
Spacing == 4

\* IdFactory.next(): the n-th id of the factory of actor a, counted from 0.
NextId(a, n) == a + Spacing * n
\* id in id_factory
Contains(a, id) == id # NoId /\ id % Spacing = a

\* The registration states of a token.
Unregistered == "unregistered"
InTheWorld == "registered"
Removed == "removed"

UnhandledSyncError == "UnhandledSyncError"

\* Message.ErrorState
SOFT_SYNC_ERROR == 0
HARD_SYNC_ERROR == 1

\* The world and its tokens as one value, for the loops that change them
\* token by token; err is the exception that ended the loop, if any.
TheWorld ==
    [tokens |-> world_tokens, id |-> token_id, reg |-> token_reg, err |-> Ok]

DictDel(d, k) == [x \in (DOMAIN d) \ {k} |-> d[x]]

\* token in world
InWorld(w, token) == w.id[token] \in DOMAIN w.tokens

\* World._add_token(token)
AddToken_Twice(w, token) ==
    IF ~require_token(token) THEN [w EXCEPT !.err = ApiUsageError]
    ELSE IF w.id[token] = NoId THEN [w EXCEPT !.err = ApiUsageError]
    ELSE [w EXCEPT !.tokens = DictSet(@, w.id[token], token),
                   !.reg[token] = InTheWorld]

AddToken(w, token) ==
    IF ~require_token(token) THEN [w EXCEPT !.err = ApiUsageError]
    ELSE IF w.id[token] = NoId THEN [w EXCEPT !.err = ApiUsageError]
    ELSE IF InWorld(w, token) THEN [w EXCEPT !.err = ApiUsageError]
    ELSE [w EXCEPT !.tokens = DictSet(@, w.id[token], token),
                   !.reg[token] = InTheWorld]

\* World._remove_token(token)
RemoveToken(w, token) ==
    IF ~require_token(token) THEN [w EXCEPT !.err = ApiUsageError]
    ELSE IF ~InWorld(w, token) THEN [w EXCEPT !.err = ApiUsageError]
    ELSE [w EXCEPT !.tokens = DictDel(@, w.id[token]),
                   !.reg[token] = Removed]

\* Token.reset_registration(): back to unregistered, the id is kept.
ResetRegistration_Frozen(w, token) == w

ResetRegistration(w, token) == [w EXCEPT !.reg[token] = Unregistered]

\* The access check every token method starts with.
Allowed_Unlocked(kind, token) ==
    CASE kind = "read_only" -> TRUE
      [] kind = "read_write" -> token_reg[token] = InTheWorld
      [] kind = "before_world" ->
            \/ token_reg[token] = Unregistered
            \/ token_reg[token] = InTheWorld /\ ~world_locked

Allowed_Anywhere(kind, token) ==
    CASE kind = "read_only" -> TRUE
      [] kind = "read_write" -> token_reg[token] = InTheWorld /\ ~world_locked
      [] kind = "before_world" -> token_reg[token] # Removed

Allowed(kind, token) ==
    CASE kind = "read_only" -> TRUE
      [] kind = "read_write" -> token_reg[token] = InTheWorld /\ ~world_locked
      [] kind = "before_world" ->
            \/ token_reg[token] = Unregistered
            \/ token_reg[token] = InTheWorld /\ ~world_locked

\* What an operation on the world leaves alone in the message.
NoHook ==
    /\ wret' = None
    /\ wanswer' = None
    /\ whooks' = << >>
    /\ wseen' = {}
    /\ world_before' = {}
    /\ accepted' = FALSE
    /\ checker' = {}
    /\ UNCHANGED <<error_state, overrides>>

\* DummyWorld(), DummyToken() ...: a locked, empty world and tokens without id.
WorldInit ==
    /\ error_state = {}
    /\ token_id = [t \in Tokens |-> NoId]
    /\ token_reg = [t \in Tokens |-> Unregistered]
    /\ world_tokens = EmptyDict
    /\ world_locked = TRUE
    /\ num_ids_assigned = [a \in Factories |-> 0]
    /\ overrides = FALSE
    /\ wlast = Op("init", Ok, << >>)
    /\ wret = None
    /\ wanswer = None
    /\ whooks = << >>
    /\ wseen = {}
    /\ world_before = {}
    /\ accepted = FALSE
    /\ checker = {}
    /\ inbox = [c \in Clients |-> << >>]
    /\ ran = [c \in Clients |-> << >>]

\* with world._unlock_temporarily(): on entry
unlock_temporarily ==
    /\ world_locked
    /\ world_locked' = FALSE
    /\ wlast' = Op("_unlock_temporarily", Ok, << >>)
    /\ UNCHANGED <<token_id, token_reg, world_tokens, num_ids_assigned>>
    /\ NoHook
    /\ WorldFrame

\* with world._unlock_temporarily(): on exit
lock_again ==
    /\ ~world_locked
    /\ world_locked' = TRUE
    /\ wlast' = Op("_lock", Ok, << >>)
    /\ UNCHANGED <<token_id, token_reg, world_tokens, num_ids_assigned>>
    /\ NoHook
    /\ WorldFrame

\* Token._give_id(id_factory)
give_id(token, a) ==
    /\ num_ids_assigned[a] < MaxIds
    /\ IF token_id[token] # NoId
       THEN /\ wlast' = Op("_give_id", ApiUsageError, <<token>>)
            /\ UNCHANGED <<token_id, num_ids_assigned>>
       ELSE /\ token_id' = [token_id EXCEPT
                               ![token] = NextId(a, num_ids_assigned[a])]
            /\ num_ids_assigned' = [num_ids_assigned EXCEPT ![a] = @ + 1]
            /\ wlast' = Op("_give_id", Ok, <<token>>)
    /\ UNCHANGED <<token_reg, world_tokens, world_locked>>
    /\ NoHook
    /\ WorldFrame

\* The world and its tokens become w; the operation ended as w.err says.
Becomes(w, name, arg) ==
    /\ world_tokens' = w.tokens
    /\ token_id' = w.id
    /\ token_reg' = w.reg
    /\ wlast' = Op(name, w.err, arg)

\* world._add_token(x)
world_add_token(x) ==
    /\ Becomes(AddToken(TheWorld, x), "_add_token", <<x>>)
    /\ UNCHANGED <<world_locked, num_ids_assigned>>
    /\ NoHook
    /\ WorldFrame

\* force_add_token(world, token) of the tests: the token is given an id of
\* the factory of actor a unless it has one, and is added to the world.
force_add_token(token, a) ==
    /\ num_ids_assigned[a] < MaxIds
    /\ LET fresh == token_id[token] = NoId
           given == IF fresh
                    THEN [TheWorld EXCEPT
                             !.id[token] = NextId(a, num_ids_assigned[a])]
                    ELSE TheWorld
       IN  /\ Becomes(AddToken(given, token), "force_add_token", <<token>>)
           /\ num_ids_assigned' =
                  IF fresh
                  THEN [num_ids_assigned EXCEPT ![a] = @ + 1]
                  ELSE num_ids_assigned
    /\ UNCHANGED world_locked
    /\ NoHook
    /\ WorldFrame

\* world._remove_token(token)
world_remove_token(token) ==
    /\ Becomes(RemoveToken(TheWorld, token), "_remove_token", <<token>>)
    /\ UNCHANGED <<world_locked, num_ids_assigned>>
    /\ NoHook
    /\ WorldFrame

\* token.reset_registration()
reset_registration(token) ==
    /\ Becomes(ResetRegistration(TheWorld, token), "reset_registration",
               <<token>>)
    /\ UNCHANGED <<world_locked, num_ids_assigned>>
    /\ NoHook
    /\ WorldFrame

\* token.read_only(), token.read_write(), token.before_world()
call_method(kind, token) ==
    /\ wlast' = Op(kind, IF Allowed(kind, token) THEN Ok ELSE ApiUsageError,
                   <<token>>)
    /\ UNCHANGED <<token_id, token_reg, world_tokens, world_locked,
                   num_ids_assigned>>
    /\ NoHook
    /\ WorldFrame

(* ----------------- Message: check, execute and undo ------------------- *)

\* Message.has_soft_sync_error
has_soft_sync_error_Any == error_state # {}

has_soft_sync_error == error_state = {SOFT_SYNC_ERROR}

\* Message.has_hard_sync_error
has_hard_sync_error_NotSoft == error_state # {SOFT_SYNC_ERROR}

has_hard_sync_error == error_state = {HARD_SYNC_ERROR}

\* The ids of the tokens of a list.
IdsOf(tokens) == {token_id[tokens[i]] : i \in 1..Len(tokens)}

\* What an operation of the message protocol leaves alone.
ProtocolFrame ==
    /\ UNCHANGED <<world_locked, overrides>>
    /\ WorldFrame

\* Message._set_error_state(world); soft is what
\* on_check_for_soft_sync_error(world) returns.
set_error_state_Hard(soft) ==
    /\ error_state' = {HARD_SYNC_ERROR}
    /\ wlast' = Op("_set_error_state", Ok, << >>)
    /\ wret' = None
    /\ wanswer' = IF soft THEN "True" ELSE "False"
    /\ whooks' = <<"on_check_for_soft_sync_error">>
    /\ wseen' = {}
    /\ world_before' = {}
    /\ accepted' = FALSE
    /\ checker' = {}
    /\ UNCHANGED <<token_id, token_reg, world_tokens, num_ids_assigned>>
    /\ ProtocolFrame

set_error_state(soft) ==
    /\ error_state' = {IF soft THEN SOFT_SYNC_ERROR ELSE HARD_SYNC_ERROR}
    /\ wlast' = Op("_set_error_state", Ok, << >>)
    /\ wret' = None
    /\ wanswer' = IF soft THEN "True" ELSE "False"
    /\ whooks' = <<"on_check_for_soft_sync_error">>
    /\ wseen' = {}
    /\ world_before' = {}
    /\ accepted' = FALSE
    /\ checker' = {}
    /\ UNCHANGED <<token_id, token_reg, world_tokens, num_ids_assigned>>
    /\ ProtocolFrame

\* for token in self.tokens_to_add: token._give_id(id_factory)
RECURSIVE GiveIds(_, _, _)
GiveIds(g, a, i) ==
    IF i > Len(tokens_to_add) \/ g.err # Ok
    THEN g
    ELSE LET token == tokens_to_add[i]
         IN  IF g.id[token] # NoId
             THEN [g EXCEPT !.err = ApiUsageError]
             ELSE GiveIds([g EXCEPT !.id[token] = NextId(a, g.n[a]),
                                    !.n[a] = @ + 1], a, i + 1)

\* Message._assign_token_ids(id_factory)
assign_token_ids(a) ==
    /\ num_ids_assigned[a] + Len(tokens_to_add) <= MaxIds
    /\ LET g == GiveIds([id |-> token_id, n |-> num_ids_assigned, err |-> Ok],
                        a, 1)
       IN  /\ token_id' = g.id
           /\ num_ids_assigned' = g.n
           /\ wlast' = Op("_assign_token_ids", g.err, << >>)
    /\ wret' = None
    /\ wanswer' = None
    /\ whooks' = << >>
    /\ wseen' = {}
    /\ world_before' = {}
    /\ accepted' = FALSE
    /\ checker' = {}
    /\ UNCHANGED <<token_reg, world_tokens, error_state>>
    /\ ProtocolFrame

\* The first loop of _check: the tokens to create, from the i-th on.
RECURSIVE CheckAdds_AnyFactory(_, _)
CheckAdds_AnyFactory(a, i) ==
    IF i > Len(tokens_to_add)
    THEN TRUE
    ELSE IF InWorld(TheWorld, tokens_to_add[i])
    THEN FALSE
    ELSE CheckAdds_AnyFactory(a, i + 1)

RECURSIVE CheckAdds(_, _)
CheckAdds(a, i) ==
    IF i > Len(tokens_to_add)
    THEN TRUE
    ELSE IF InWorld(TheWorld, tokens_to_add[i])
    THEN FALSE
    ELSE IF ~Contains(a, token_id[tokens_to_add[i]])
    THEN FALSE
    ELSE CheckAdds(a, i + 1)

\* The second loop of _check: the tokens to destroy, from the i-th on.
RECURSIVE CheckRemoves(_)
CheckRemoves(i) ==
    IF i > Len(tokens_to_remove)
    THEN TRUE
    ELSE IF ~InWorld(TheWorld, tokens_to_remove[i])
    THEN FALSE
    ELSE CheckRemoves(i + 1)

\* Message._check(world, id_factory); answer is what on_check returns.
check(a, answer) ==
    /\ LET structure == CheckAdds(a, 1) /\ CheckRemoves(1)
       IN  /\ whooks' = IF structure THEN <<"on_check">> ELSE << >>
           /\ wanswer' = IF ~structure THEN None
                          ELSE IF answer THEN "True" ELSE "False"
           /\ wret' = IF structure /\ answer THEN "True" ELSE "False"
           /\ accepted' = (structure /\ answer)
    /\ checker' = {a}
    /\ wlast' = Op("_check", Ok, << >>)
    /\ wseen' = {}
    /\ world_before' = {}
    /\ UNCHANGED <<token_id, token_reg, world_tokens, num_ids_assigned,
                   error_state>>
    /\ ProtocolFrame

\* for token in tokens: world._add_token(token)
RECURSIVE AddAll(_, _, _)
AddAll(w, tokens, i) ==
    IF i > Len(tokens) \/ w.err # Ok
    THEN w
    ELSE AddAll(AddToken(w, tokens[i]), tokens, i + 1)

\* for token in tokens: world._remove_token(token)
RECURSIVE RemoveAll(_, _, _)
RemoveAll(w, tokens, i) ==
    IF i > Len(tokens) \/ w.err # Ok
    THEN w
    ELSE RemoveAll(RemoveToken(w, tokens[i]), tokens, i + 1)

\* The world on_execute(world) is called with: after both loops.
SeenByOnExecute_Early(added, done) == DOMAIN added.tokens

SeenByOnExecute(added, done) == DOMAIN done.tokens

\* Message._execute(world)
execute ==
    /\ LET added == AddAll(TheWorld, tokens_to_add, 1)
           done == RemoveAll(added, tokens_to_remove, 1)
       IN  /\ Becomes(done, "_execute", << >>)
           /\ whooks' = IF done.err = Ok THEN <<"on_execute">> ELSE << >>
           /\ wseen' = IF done.err = Ok
                       THEN SeenByOnExecute(added, done)
                       ELSE {}
    /\ world_before' = DOMAIN world_tokens
    /\ wret' = None
    /\ wanswer' = None
    /\ accepted' = FALSE
    /\ checker' = {}
    /\ UNCHANGED <<num_ids_assigned, error_state>>
    /\ ProtocolFrame

\* Message._handle_soft_sync_error(world)
handle_soft_sync_error ==
    /\ wlast' = Op("_handle_soft_sync_error", Ok, << >>)
    /\ whooks' = <<"on_soft_sync_error">>
    /\ wret' = None
    /\ wanswer' = None
    /\ wseen' = {}
    /\ world_before' = {}
    /\ accepted' = FALSE
    /\ checker' = {}
    /\ UNCHANGED <<token_id, token_reg, world_tokens, num_ids_assigned,
                   error_state>>
    /\ ProtocolFrame

\* The first loop of _handle_hard_sync_error: the tokens that were added
\* are looked up by id and removed, from the i-th on.
UndoAdds_Skip(w, i) == w

RECURSIVE UndoAdds(_, _)
UndoAdds(w, i) ==
    IF i > Len(tokens_to_add) \/ w.err # Ok
    THEN w
    ELSE LET id == w.id[tokens_to_add[i]]
         IN  IF id \notin DOMAIN w.tokens
             THEN [w EXCEPT !.err = ApiUsageError]
             ELSE UndoAdds(RemoveToken(w, w.tokens[id]), i + 1)

\* The second loop: the tokens that were removed are reset, given their id
\* again and added, from the i-th on.
RECURSIVE UndoRemoves(_, _)
UndoRemoves(w, i) ==
    IF i > Len(tokens_to_remove) \/ w.err # Ok
    THEN w
    ELSE LET token == tokens_to_remove[i]
             id == w.id[token]
             reset == ResetRegistration(w, token)
             again == [reset EXCEPT !.id[token] = id]
         IN  UndoRemoves(AddToken(again, token), i + 1)

\* Message.on_hard_sync_error(world), unless the message type overrides it.
on_hard_sync_error_Pass == Ok

on_hard_sync_error == IF overrides THEN Ok ELSE UnhandledSyncError

\* Message._handle_hard_sync_error(world)
handle_hard_sync_error ==
    /\ LET undone == UndoRemoves(UndoAdds(TheWorld, 1), 1)
           err == IF undone.err # Ok THEN undone.err ELSE on_hard_sync_error
       IN  /\ Becomes([undone EXCEPT !.err = err], "_handle_hard_sync_error",
                      << >>)
           /\ whooks' = IF undone.err = Ok
                        THEN <<"on_hard_sync_error">>
                        ELSE << >>
    /\ wret' = None
    /\ wanswer' = None
    /\ wseen' = {}
    /\ world_before' = {}
    /\ accepted' = FALSE
    /\ checker' = {}
    /\ UNCHANGED <<num_ids_assigned, error_state>>
    /\ ProtocolFrame

(* ---------------- the authoritative side and its clients -------------- *)

\* What the authoritative side does with a message it has checked: an
\* accepted message and a message with a soft error go to every participant
\* but the one that sent it, a message with a hard error goes back to the
\* participant that sent it and to nobody else.
relay ==
    /\ \/ wlast.op = "_check" /\ wret = "True"
       \/ wlast.op = "_set_error_state"
    /\ \E sender \in sender_id :
          inbox' = [c \in Clients |->
                      IF error_state = {} \/ has_soft_sync_error
                      THEN IF c # sender
                           THEN Append(inbox[c], error_state)
                           ELSE inbox[c]
                      ELSE IF c = sender
                           THEN Append(inbox[c], error_state)
                           ELSE inbox[c]]
    /\ wlast' = Op("relay", Ok, << >>)
    /\ UNCHANGED <<token_id, token_reg, world_tokens, world_locked,
                   num_ids_assigned, ran>>
    /\ NoHook
    /\ UNCHANGED <<forumVars, msgVars, timerVars, exchangeVars, serializerVars, extraVars>>

\* What the forum of a participant runs for a copy with the given error
\* state: the undo for a hard error, else _execute, followed by the soft
\* sync hook for a soft error.
RunsFor(state) ==
    IF state = {HARD_SYNC_ERROR}
    THEN <<"_handle_hard_sync_error">>
    ELSE IF state = {SOFT_SYNC_ERROR}
    THEN <<"_execute", "_handle_soft_sync_error">>
    ELSE <<"_execute">>

\* The forum of participant c takes the next copy from its pipe.
client_receive(c) ==
    /\ inbox[c] # << >>
    /\ ran' = [ran EXCEPT ![c] = @ \o RunsFor(Head(inbox[c]))]
    /\ inbox' = [inbox EXCEPT ![c] = Tail(@)]
    /\ UNCHANGED <<forumVars, msgVars, worldVars, timerVars, exchangeVars,
                   serializerVars, extraVars>>

(* ------------------------------- Timer -------------------------------- *)

\* The delays publish() and the elapsed times deliver() are given.
Delays == 0..MaxDelay
Times == 0..MaxTime

TimerOp(name, err, time) == [op |-> name, err |-> err, time |-> time]

\* Timer.__init__
TimerInit ==
    /\ pending = << >>
    /\ nTimed = 0
    /\ tlast = TimerOp("init", Ok, 0)

\* What an operation of the timer leaves alone.
TimerFrame ==
    UNCHANGED <<pipes, history, subscriptions, locked, pc, idx, target,
                registered, outbox, ticker, nPub, nRecv, nSubs, last, invoked,
                stale, handled, msgVars, worldVars, remoteVars, exchangeVars,
                serializerVars, extraVars>>

\* Timer.publish(message, delay)
Timer_publish(f, delay) ==
    /\ nTimed < MaxTimed
    /\ nTimed' = nTimed + 1
    /\ pending' = Append(pending, <<delay, LocalMessage(f, nTimed + 1)>>)
    /\ tlast' = TimerOp("publish", Ok, delay)
    /\ UNCHANGED publications
    /\ TimerFrame

\* if delay < 0
Due(delay) == delay < 0

\* The packages the loop of deliver() hands to Forum.publish, in order.
RECURSIVE Promoted(_, _)
Promoted(packages, time) ==
    IF packages = << >>
    THEN << >>
    ELSE LET delay == Head(packages)[1] - time
             message == Head(packages)[2]
             rest == Promoted(Tail(packages), time)
         IN  IF Due(delay)
             THEN <<<<None, NoTag, message>>>> \o rest
             ELSE rest

\* The packages the loop of deliver() publishes again with what is left of
\* their delay, in order.
RECURSIVE Deferred(_, _)
Deferred(packages, time) ==
    IF packages = << >>
    THEN << >>
    ELSE LET delay == Head(packages)[1] - time
             message == Head(packages)[2]
             rest == Deferred(Tail(packages), time)
         IN  IF Due(delay)
             THEN rest
             ELSE <<<<delay, message>>>> \o rest

\* Timer.deliver(time): after the loop it calls Forum.deliver(self), which
\* Forum does not define.
Timer_deliver(time) ==
    /\ publications' = publications \o Promoted(pending, time)
    /\ pending' = Deferred(pending, time)
    /\ tlast' = TimerOp("deliver", AttributeError, time)
    /\ UNCHANGED nTimed
    /\ TimerFrame

(* -------------------- Exchanges and conversations --------------------- *)

\* The objects the constructors are called for: two exchanges of the base
\* class, an Inform, a Request, a Reply and a Conversation.
BaseExchanges == {"e1", "e2"}
TheInform == "i1"
TheRequest == "r1"
TheReply == "y1"
TheConversation == "c1"
Exchanges == BaseExchanges \cup {TheInform, TheRequest, TheReply}
\* The messages an exchange is given to send.
Contents == {"m1", "m2"}
\* The exchanges a conversation is constructed with.
ExchangeLists == SeqsUpTo(Exchanges, MaxExchanges)

\* No exchange, conversation or client call has been made yet.
ExchangeInit ==
    /\ built = {}
    /\ complete = [e \in Exchanges |-> FALSE]
    /\ successors = [e \in Exchanges |-> << >>]
    /\ inform_message = {}
    /\ client_groups = {}
    /\ client_queue = << >>
    /\ clast = Op("init", Ok, << >>)
    /\ active = {}

\* What an operation on an exchange leaves alone: everything outside the
\* exchanges, and self.exchanges of the conversation, which is bound by the
\* last statement of Conversation.__init__ and by nothing else.
ExchangeFrame ==
    UNCHANGED <<forumVars, msgVars, worldVars, remoteVars, timerVars,
                serializerVars, extraVars, active>>

\* Exchange.__init__(self, outgoing={}, incoming={})
Constructed(flags, e) == [flags EXCEPT ![e] = FALSE]

Exchange_init(e) ==
    /\ e \in BaseExchanges \ built
    /\ built' = built \cup {e}
    /\ complete' = Constructed(complete, e)
    /\ successors' = [successors EXCEPT ![e] = << >>]
    /\ clast' = Op("Exchange", Ok, <<e>>)
    /\ UNCHANGED <<inform_message, client_groups, client_queue>>
    /\ ExchangeFrame

\* Exchange.enter(client): the client is given the callbacks of the
\* exchange, grouped under the exchange.
Exchange_enter(e) ==
    /\ e \in BaseExchanges \cap built
    /\ client_groups' = client_groups \cup {e}
    /\ clast' = Op("enter", Ok, <<e>>)
    /\ UNCHANGED <<built, complete, successors, inform_message, client_queue>>
    /\ ExchangeFrame

\* Exchange.update(client): pass
Exchange_update(e) ==
    /\ e \in built
    /\ clast' = Op("update", Ok, <<e>>)
    /\ UNCHANGED <<built, complete, successors, inform_message, client_groups,
                   client_queue>>
    /\ ExchangeFrame

\* Exchange.exit(client)
Exchange_exit(e) ==
    /\ e \in built
    /\ client_groups' = client_groups \ {e}
    /\ successors' = [successors EXCEPT ![e] = IF @ = <<None>> THEN << >> ELSE @]
    /\ clast' = Op("exit", Ok, <<e>>)
    /\ UNCHANGED <<built, complete, inform_message, client_queue>>
    /\ ExchangeFrame

\* Inform.__init__(self, flavor, message, function): self.complete = True
\* comes before Exchange.__init__(self, outgoing=callback).
Inform_init(message) ==
    /\ TheInform \notin built
    /\ built' = built \cup {TheInform}
    /\ inform_message' = {message}
    /\ complete' = Constructed([complete EXCEPT ![TheInform] = TRUE], TheInform)
    /\ successors' = [successors EXCEPT ![TheInform] = << >>]
    /\ clast' = Op("Inform", Ok, <<TheInform>>)
    /\ UNCHANGED <<client_groups, client_queue>>
    /\ ExchangeFrame

\* Inform.enter(client): Exchange.setup(client) is the first statement, and
\* Exchange has no attribute setup.
Inform_enter ==
    /\ TheInform \in built
    /\ clast' = Op("enter", AttributeError, <<TheInform>>)
    /\ UNCHANGED <<built, complete, successors, inform_message, client_groups,
                   client_queue>>
    /\ ExchangeFrame

\* Request.__init__(self, flavor_out, flavor_in, request, callback): the
\* first statement, self.request = self.request, reads an attribute the new
\* object does not have.
Request_init ==
    /\ clast' = Op("Request", AttributeError, <<TheRequest>>)
    /\ UNCHANGED <<built, complete, successors, inform_message, client_groups,
                   client_queue>>
    /\ ExchangeFrame

\* Reply.__init__(self, flavor_in, flavor_out, callback, successor): it ends
\* with Exchange.__init__(outgoing, incoming), which is handed a dict where
\* the exchange belongs: Python 2 refuses the call with a TypeError, Python 3
\* fails on the first assignment with an AttributeError.
Reply_init(err) ==
    /\ err \in {TypeError, AttributeError}
    /\ clast' = Op("Reply", err, <<TheReply>>)
    /\ UNCHANGED <<built, complete, successors, inform_message, client_groups,
                   client_queue>>
    /\ ExchangeFrame

\* Conversation.__init__(self, client, *exchanges): self.execute(*exchanges)
\* calls execute(*exchanges), declared without self, so the conversation is
\* the first of the exchanges of its loop, and it has no attribute enter:
\* the call raises before an exchange is entered, and self.exchanges, which
\* was to be bound to what the call returns, stays unbound.
Conversation_init(exchanges) ==
    /\ Range(exchanges) \subseteq built
    /\ clast' = Op("Conversation", AttributeError, exchanges)
    /\ UNCHANGED <<built, complete, successors, inform_message, client_groups,
                   client_queue>>
    /\ ExchangeFrame

(* ----------------------------- Serializer ----------------------------- *)

\* The instances unpack() can make, and all instances of tokens.
Copies == {"d1", "d2"}
Instances == Tokens \cup Copies
Colors == {"red", "blue"}

\* token_2 = DummyToken(token_1): the second token is a child of the first.
SerializerInit ==
    /\ attribute = [x \in Instances |-> "red"]
    /\ parent = [x \in Instances |-> IF x = "t2" THEN {"t1"} ELSE {}]
    /\ allocated = {}
    /\ packed = << >>
    /\ source = {}
    /\ unpacked = {}
    /\ slast = Op("init", Ok, << >>)

\* What an operation of a serializer leaves alone.
SerializerFrame ==
    UNCHANGED <<forumVars, msgVars, worldVars, remoteVars, timerVars,
                exchangeVars, extraVars>>

\* Whether the serializer writes a reference in place of the token: it does
\* for a token that is registered in its world.
Persistent_Never(x) == FALSE

Persistent(x) ==
    /\ x \in Tokens
    /\ token_id[x] \in DOMAIN world_tokens
    /\ world_tokens[token_id[x]] = x

\* The two forms of a packed token, and a packed message carrying one.
PackedReference(id) ==
    [kind |-> "reference", id |-> id, attribute |-> "", parent |-> << >>]
PackedValue(a, p) ==
    [kind |-> "value", id |-> NoId, attribute |-> a, parent |-> p]
PackedMessage(p) ==
    [kind |-> "message", id |-> NoId, attribute |-> "", parent |-> <<p>>]

\* What pack() writes for a token: its id when the token is registered, else
\* its attributes, the parent written in the same way.
RECURSIVE Pack(_)
Pack(x) ==
    IF Persistent(x)
    THEN PackedReference(token_id[x])
    ELSE PackedValue(attribute[x],
                     IF parent[x] = {}
                     THEN << >>
                     ELSE <<Pack(CHOOSE y \in parent[x] : TRUE)>>)

\* A token pack() is given: a registered token, or a token whose parent, if
\* it has one, is registered.
Packable(x) ==
    \/ Persistent(x)
    \/ \A y \in parent[x] : Persistent(y)

\* token.attribute = color, before anything is packed
set_attribute(x, color) ==
    /\ packed = << >>
    /\ attribute' = [attribute EXCEPT ![x] = color]
    /\ slast' = Op("set_attribute", Ok, <<x, color>>)
    /\ unpacked' = {}
    /\ UNCHANGED <<parent, allocated, packed, source>>
    /\ SerializerFrame

\* serializer.pack(token)
pack_token(x) ==
    /\ x \in Tokens \cup allocated
    /\ Packable(x)
    /\ packed' = <<Pack(x)>>
    /\ source' = {x}
    /\ unpacked' = {}
    /\ slast' = Op("pack", Ok, <<"token">>)
    /\ UNCHANGED <<attribute, parent, allocated>>
    /\ SerializerFrame

\* message.token = token; serializer.pack(message)
pack_message(x) ==
    /\ x \in Tokens \cup allocated
    /\ Packable(x)
    /\ packed' = <<PackedMessage(Pack(x))>>
    /\ source' = {x}
    /\ unpacked' = {}
    /\ slast' = Op("pack", Ok, <<"message">>)
    /\ UNCHANGED <<attribute, parent, allocated>>
    /\ SerializerFrame

\* deserializer.unpack(packed): a reference is looked up in the world, a
\* value becomes a new instance with the packed attributes, its parent
\* looked up in the world; for a message the result is the token of the new
\* message.
unpack ==
    /\ packed # << >>
    /\ LET token == IF packed[1].kind = "message"
                    THEN packed[1].parent[1]
                    ELSE packed[1]
           carried == IF packed[1].kind = "message" THEN "message" ELSE "token"
       IN  /\ IF token.kind = "reference"
              THEN /\ unpacked' = {world_tokens[token.id]}
                   /\ UNCHANGED <<attribute, parent, allocated>>
              ELSE /\ Copies \ allocated # {}
                   /\ LET new == CHOOSE d \in Copies \ allocated : TRUE
                      IN  /\ unpacked' = {new}
                          /\ allocated' = allocated \cup {new}
                          /\ attribute' = [attribute EXCEPT ![new] = token.attribute]
                          /\ parent' = [parent EXCEPT ![new] =
                                          IF token.parent = << >>
                                          THEN {}
                                          ELSE {world_tokens[token.parent[1].id]}]
           /\ slast' = Op("unpack", Ok, <<carried>>)
    /\ packed' = << >>
    /\ UNCHANGED source
    /\ SerializerFrame

(* --------------------------- specifications --------------------------- *)

(* ----------------------- demos: guess my number ----------------------- *)

\* Referee.on_start_game: self >> PickNumber(0, 5)
PickLower == 0
PickUpper == 5
\* The actors that guess.
Players == {1, 2}
\* What a player can type: a number made of digits.
Guesses == 0..MaxGuess

\* The last message executed on the world of the game.
GuessOp(name, player, guess) == [op |-> name, player |-> player, guess |-> guess]

\* World.__init__ of the demo
GuessInit ==
    /\ number = 0
    /\ lower_bound = 0
    /\ upper_bound = 0
    /\ winner = 0
    /\ game_over = FALSE
    /\ glast = GuessOp("init", 0, 0)

GuessFrame ==
    UNCHANGED <<forumVars, msgVars, worldVars, remoteVars, timerVars,
                exchangeVars, serializerVars, pickleVars, netVars>>

\* PickNumber.__init__: random.randint(lower_bound + 1, upper_bound - 1)
Picks(lower, upper) == (lower + 1)..(upper - 1)

\* PickNumber.on_execute, of the message the referee sends when the game
\* starts.
PickNumber_on_execute(n) ==
    /\ glast.op = "init"
    /\ number' = n
    /\ lower_bound' = PickLower
    /\ upper_bound' = PickUpper
    /\ glast' = GuessOp("PickNumber", 0, n)
    /\ UNCHANGED <<winner, game_over>>
    /\ GuessFrame

\* max() and min() of two integers
max_First(a, b) == a

max(a, b) == IF a >= b THEN a ELSE b

min(a, b) == IF a <= b THEN a ELSE b

\* World.end_game(): the game is over from here on.
end_game == TRUE

\* GuessNumber.on_execute
GuessNumber_on_execute(player, guess) ==
    /\ glast.op # "init"
    /\ IF guess = number
       THEN /\ winner' = player
            /\ game_over' = end_game
            /\ UNCHANGED <<lower_bound, upper_bound>>
       ELSE IF guess < number
       THEN /\ lower_bound' = max(guess, lower_bound)
            /\ UNCHANGED <<upper_bound, winner, game_over>>
       ELSE /\ upper_bound' = min(guess, upper_bound)
            /\ UNCHANGED <<lower_bound, winner, game_over>>
    /\ glast' = GuessOp("GuessNumber", player, guess)
    /\ UNCHANGED number
    /\ GuessFrame

(* ------------------------- messages and pickle ------------------------ *)

\* No message was pickled yet, and the message was built by its constructor.
PickleInit ==
    /\ pickled = {}
    /\ was_sent_flag = FALSE

PickleFrame ==
    UNCHANGED <<forumVars, worldVars, remoteVars, timerVars, exchangeVars,
                serializerVars, guessVars, netVars>>

\* An entry of the state for a list: empty lists are left out of the state.
Entry(list) == IF list = << >> THEN {} ELSE {list}

\* Message.__getstate__: a copy of the attributes of the message, without
\* the token lists that are empty.
getstate ==
    /\ pickled' = {[tokens_to_add    |-> Entry(tokens_to_add),
                    tokens_to_remove |-> Entry(tokens_to_remove),
                    sender_id        |-> sender_id,
                    was_sent         |-> was_sent_flag]}
    /\ mlast' = Op("__getstate__", Ok, << >>)
    /\ UNCHANGED <<tokens_to_add, tokens_to_remove, sender_id, was_sent_flag>>
    /\ PickleFrame

\* The list a state holds, or the empty list Message.__init__ has bound.
Restored(entry) == IF entry = {} THEN << >> ELSE CHOOSE list \in entry : TRUE

\* Message.__setstate__: the message is the one rebuilt from the state from
\* here on.  Message.__init__ binds two empty lists, the state overwrites
\* the attributes it holds, and _was_sent is set.
setstate ==
    /\ \E state \in pickled :
        /\ tokens_to_add' = Restored(state.tokens_to_add)
        /\ tokens_to_remove' = Restored(state.tokens_to_remove)
        /\ sender_id' = state.sender_id
    /\ was_sent_flag' = TRUE
    /\ mlast' = Op("__setstate__", Ok, << >>)
    /\ UNCHANGED pickled
    /\ PickleFrame

(* ------------------------- a network of forums ------------------------ *)

\* Three locked forums, each of which holds a pipe to each of the others.
\* Every forum subscribes one callback to the flavor of the messages.
Forums == {1, 2, 3}

\* self.pipes of a forum, each pipe named by the forum at its other end.
Peers(f) == IF f = 1 THEN <<2, 3>> ELSE IF f = 2 THEN <<1, 3>> ELSE <<1, 2>>

\* The sender of a publication that was published on the forum itself.
Local == 0

\* The ends of the pipes: get_identity() of every pipe of a forum is the
\* number of the forum.
NetIdentity(f) == f

\* Forum.__init__ and lock() of every forum, over pipes that carry nothing.
NetInit ==
    /\ net = [f \in Forums |->
                [history      |-> [o \in Forums |-> 0],
                 publications |-> << >>,
                 ticker       |-> [p \in Forums |-> 0],
                 outbox       |-> [p \in Forums |-> << >>],
                 delivered    |-> << >>]]
    /\ wire = [l \in Forums \X Forums |-> << >>]
    /\ publishers = << >>

NetFrame ==
    UNCHANGED <<forumVars, msgVars, worldVars, remoteVars, timerVars,
                exchangeVars, serializerVars, guessVars, pickleVars>>

\* Forum.publish(message) on forum f; the message is named by its number.
NetPublish(f) ==
    /\ Len(publishers) < MaxNetPub
    /\ net' = [net EXCEPT ![f].publications =
                              Append(@, <<Local, NoTag, Len(publishers) + 1>>)]
    /\ publishers' = Append(publishers, f)
    /\ UNCHANGED wire
    /\ NetFrame

\* The value of an expression, computed once: the element of a set of one.
The(S) == CHOOSE x \in S : TRUE

\* `for tag, flavor, message in pipe.receive(target)` for one pipe.
RECURSIVE NetReceived(_, _, _)
NetReceived(run, sender, packets) ==
    IF packets = << >>
    THEN run
    ELSE LET tag == Head(packets)[1]
             new == Accepts(tag[3], run.history[tag[2]])
             next == [run EXCEPT
                        !.target = tag[1],
                        !.history = IF new THEN [@ EXCEPT ![tag[2]] = tag[3]]
                                    ELSE @,
                        !.publications =
                            IF new
                            THEN Append(@, <<sender, tag, Head(packets)[2]>>)
                            ELSE @]
         IN  The({NetReceived(x, sender, Tail(packets)) : x \in {next}})

\* `for pipe in self.pipes` around it.
RECURSIVE NetReceivedAll(_, _, _)
NetReceivedAll(run, f, peers) ==
    IF peers = << >>
    THEN run
    ELSE The({NetReceivedAll(x, f, Tail(peers)) :
                 x \in {NetReceived(run, Head(peers), wire[<<Head(peers), f>>])}})

\* The pipes a publication is relayed to: `if pipe is not sender`.
Recipients(f, sender) == SelectSeq(Peers(f), LAMBDA p : p # sender)

\* `if tag: pipe.resend(tag, message) else: pipe.send(target, message)` for
\* each of the pipes; send() stamps the message with the target, the
\* identity of the pipe and the next ticker of the pipe.
RECURSIVE NetSent(_, _, _, _)
NetSent(run, f, publication, peers) ==
    IF peers = << >>
    THEN run
    ELSE LET p == Head(peers)
             stamp == <<run.target, NetIdentity(f), run.ticker[p] + 1>>
             next == IF publication[2] # NoTag
                     THEN [run EXCEPT !.outbox[p] =
                              Append(@, <<publication[2], publication[3]>>)]
                     ELSE [run EXCEPT !.ticker[p] = @ + 1,
                                      !.outbox[p] =
                                          Append(@, <<stamp, publication[3]>>)]
         IN  The({NetSent(x, f, publication, Tail(peers)) : x \in {next}})

\* The `while True` loop: every publication is handed to the callback and
\* relayed.
RECURSIVE NetDrained(_, _)
NetDrained(run, f) ==
    IF run.publications = << >>
    THEN run
    ELSE LET publication == Head(run.publications)
             handed == [run EXCEPT
                          !.publications = Tail(@),
                          !.delivered =
                              Append(@, <<publication[2], publication[3]>>)]
         IN  The({NetDrained(x, f) :
                     x \in {NetSent(handed, f, publication,
                                    Recipients(f, publication[1]))}})

\* `for tag, flavor, message in pipe.deliver()` for one pipe.
RECURSIVE NetStamped(_, _)
NetStamped(stamped, packets) ==
    IF packets = << >>
    THEN stamped
    ELSE NetStamped([stamped EXCEPT ![Head(packets)[1][2]] = Head(packets)[1][3]],
                    Tail(packets))

\* What deliver() of a pipe hands over and returns: the first packets of
\* its buffer, as many as the connection takes.
Taken(buffer, cut) ==
    SubSeq(buffer, 1, IF cut < Len(buffer) THEN cut ELSE Len(buffer))

\* `for pipe in self.pipes` around it; the packets deliver() returns are on
\* their way, and the others stay in the buffer of the pipe.
RECURSIVE NetFlushed(_, _, _)
NetFlushed(run, peers, cuts) ==
    IF peers = << >>
    THEN run
    ELSE LET p == Head(peers)
             taken == Taken(run.outbox[p], cuts[p])
             next == [run EXCEPT
                        !.history = NetStamped(@, taken),
                        !.outbox[p] = SubSeq(@, Len(taken) + 1, Len(@)),
                        !.taken[p] = taken]
         IN  The({NetFlushed(x, Tail(peers), cuts) : x \in {next}})

\* Forum.update() of forum f, from its first line to its last; deliver()
\* of the pipe to peer p hands over up to cuts[p] packets.
NetUpdate(f, cuts) ==
    LET begun == [history      |-> net[f].history,
                  publications |-> net[f].publications,
                  ticker       |-> net[f].ticker,
                  outbox       |-> net[f].outbox,
                  delivered    |-> net[f].delivered,
                  target       |-> ForumTarget,
                  taken        |-> [p \in Forums |-> << >>]]
    IN  \E start \in {begun} :
        \E received \in {NetReceivedAll(start, f, Peers(f))} :
        \E drained \in {NetDrained(received, f)} :
        \E flushed \in {NetFlushed(drained, Peers(f), cuts)} :
        /\ net' = [net EXCEPT ![f] = [history      |-> flushed.history,
                                      publications |-> flushed.publications,
                                      ticker       |-> flushed.ticker,
                                      outbox       |-> flushed.outbox,
                                      delivered    |-> flushed.delivered]]
        /\ wire' = [l \in Forums \X Forums |->
                      IF l[2] = f THEN << >>
                      ELSE IF l[1] = f THEN wire[l] \o flushed.taken[l[2]]
                      ELSE wire[l]]
        /\ UNCHANGED publishers
        /\ NetFrame

\* What the connections take in one deliver(): at least one packet.
Cuts == [Forums -> 1..MaxNetPub]

\* A timer, the exchanges, the serializers, the game, the pickled message and
\* the network before anything was done with them.
LaterInit ==
    /\ TimerInit
    /\ ExchangeInit
    /\ SerializerInit
    /\ GuessInit
    /\ PickleInit
    /\ NetInit

Init == ForumInit /\ MessageInit /\ WorldInit /\ LaterInit

\* The packets the network may hand over: (target, origin, ticker, flavor).
Packets == {ForumTarget} \X Origins \X Tickers \X RemoteFlavors

\* One step of a running update(), the network handing over packets of the
\* given set, and no more than the given number in a run.
UpdateStep(packets, budget) ==
    \/ /\ nRecv < budget
       /\ \E pkt \in packets : ReceivePacket(pkt[1], pkt[2], pkt[3], pkt[4])
    \/ ReceiveEnd
    \/ DrainOne
    \/ DrainEmpty
    \/ \E k \in 0..(MaxPub + budget) : FlushPipe(k)

\* The one packet a forum with a single peer is sent, any number of times.
PeerPackets == {<<ForumTarget, 2, 1, "A">>}

\* The whole life of a forum with at most one pipe.
Next ==
    \/ \E f \in Flavors, cb \in Callbacks : Subscribe(f, cb)
    \/ \E f \in Flavors : Publish(f)
    \/ Lock
    \/ Unlock
    \/ \E ps \in {<<"P1">>} : Setup(ps)
    \/ Teardown
    \/ UpdateBegin
    \/ UpdateStep(PeerPackets, MaxPackets)

Spec == Init /\ [][Next]_vars

\* A forum that was set up with its pipes, given its subscriptions and
\* locked: the state after Forum(*pipes), subscribe(...) and lock().
LockedInit ==
    /\ pipes \in {<<"P1">>, <<"P1", "P2">>}
    /\ history = EmptyDict
    /\ subscriptions = DictSet(DictSet(EmptyDict, "A", <<"f">>), "B", <<"g">>)
    /\ publications = << >>
    /\ locked = TRUE
    /\ pc = "idle"
    /\ idx = 0
    /\ target = ForumTarget
    /\ registered = [p \in AllPipes |->
                       IF p \in Range(pipes) THEN {ForumTarget} ELSE {}]
    /\ outbox = [p \in AllPipes |-> << >>]
    /\ ticker = [p \in AllPipes |-> 0]
    /\ nPub = 0
    /\ nRecv = 0
    /\ nSubs = 0
    /\ last = Op("lock", Ok, << >>)
    /\ invoked = << >>
    /\ stale = {}
    /\ handled = EmptyDict
    /\ MessageInit
    /\ WorldInit
    /\ LaterInit


LockedNext ==
    \/ \E f \in Flavors : Publish(f)
    \/ UpdateBegin
    \/ UpdateStep(Packets, MaxPackets)

SpecLocked == LockedInit /\ [][LockedNext]_vars

\* A locked forum between two peers that publishes nothing itself: it hands
\* what arrives on one pipe to its subscribers and relays it to the other pipe.
RelayInit ==
    /\ LockedInit
    /\ pipes = <<"P1", "P2">>

RelayNext ==
    \/ UpdateBegin
    \/ UpdateStep({ForumTarget} \X {2} \X Tickers \X RemoteFlavors, MaxRelayed)

SpecRelay == RelayInit /\ [][RelayNext]_vars

\* publish() called from another thread against a game loop that keeps
\* calling update(): every step of update() is taken eventually.
UpdateRuns ==
    \/ UpdateBegin
    \/ ReceiveEnd
    \/ DrainOne
    \/ DrainEmpty
    \/ \E k \in 0..(MaxPub + MaxPackets) : FlushPipe(k)

ThreadsNext ==
    \/ \E f \in Flavors : Publish(f)
    \/ UpdateBegin
    \/ UpdateStep(PeerPackets, MaxPackets)

SpecThreads == LockedInit /\ [][ThreadsNext]_vars /\ WF_vars(UpdateRuns)

\* One message, from its construction on.
MessageNext ==
    \/ \E t \in Tokens \cup {NonToken} : add_token(t)
    \/ \E ts \in TokenLists : add_tokens(ts)
    \/ \E t \in Tokens \cup {NonToken} : remove_token(t)
    \/ \E ts \in TokenLists : remove_tokens(ts)
    \/ \E id \in ActorIds : set_sender_id(id)

SpecMessage == Init /\ [][MessageNext]_vars

\* The life of tokens in a world, as the tests drive it: ids are given,
\* tokens are added and removed inside an _unlock_temporarily scope, removed
\* tokens are reset, and the methods of the tokens are called at any time.
TokensNext ==
    \/ unlock_temporarily
    \/ lock_again
    \/ \E token \in Tokens, a \in Factories : give_id(token, a)
    \/ \E x \in Tokens \cup {NonToken} :
          /\ ~world_locked
          /\ x \in Tokens => token_reg[x] # Removed
          /\ world_add_token(x)
    \/ \E token \in Tokens :
          /\ ~world_locked
          /\ token_reg[token] = InTheWorld
          /\ world_remove_token(token)
    \/ \E token \in Tokens :
          /\ token_reg[token] = Removed
          /\ reset_registration(token)
    \/ \E kind \in {"read_only", "read_write", "before_world"},
          token \in Tokens : call_method(kind, token)

SpecTokens == Init /\ [][TokensNext]_vars

\* The token lists of the messages that are checked and executed.
MessageTokenLists == SeqsUpTo(Tokens, MaxTokens)

\* One message with its token lists filled, of a type that defines
\* on_hard_sync_error or not, and the world its forum has unlocked for it.
SyncInit ==
    /\ ForumInit
    /\ tokens_to_add \in MessageTokenLists
    /\ tokens_to_remove \in MessageTokenLists
    /\ sender_id = Unset
    /\ mlast = Op("init", Ok, << >>)
    /\ error_state = {}
    /\ token_id = [t \in Tokens |-> NoId]
    /\ token_reg = [t \in Tokens |-> Unregistered]
    /\ world_tokens = EmptyDict
    /\ world_locked = FALSE
    /\ num_ids_assigned = [a \in Factories |-> 0]
    /\ overrides \in BOOLEAN
    /\ wlast = Op("init", Ok, << >>)
    /\ wret = None
    /\ wanswer = None
    /\ whooks = << >>
    /\ wseen = {}
    /\ world_before = {}
    /\ accepted = FALSE
    /\ checker = {}
    /\ inbox = [c \in Clients |-> << >>]
    /\ ran = [c \in Clients |-> << >>]
    /\ LaterInit

\* The message is given its ids, checked once its new tokens have ids,
\* executed when it was accepted, and undone after it was executed; a
\* rejected message is given its error state.
\* Around it, other tokens get ids and enter and leave the world.
SyncNext ==
    \/ \E token \in Tokens, a \in Factories : force_add_token(token, a)
    \/ \E token \in Tokens :
          /\ token_reg[token] = InTheWorld
          /\ world_remove_token(token)
    \/ \E a \in Factories : assign_token_ids(a)
    \/ \E a \in Factories, answer \in BOOLEAN :
          /\ NoId \notin IdsOf(tokens_to_add)
          /\ check(a, answer)
    \/ accepted /\ execute
    \/ \E soft \in BOOLEAN :
          /\ wlast.op = "_check"
          /\ wret = "False"
          /\ set_error_state(soft)
    \/ has_soft_sync_error /\ handle_soft_sync_error
    \/ /\ wlast.op = "_execute"
       /\ wlast.err = Ok
       /\ handle_hard_sync_error

SpecSync == SyncInit /\ [][SyncNext]_vars


\* A message one of the participants has executed and sent, as it arrives
\* at the authoritative side: its new tokens have ids of the sender's
\* factory, and the world of the authoritative side holds none of its tokens.
RemoteInit ==
    /\ ForumInit
    /\ tokens_to_add \in MessageTokenLists
    /\ tokens_to_remove \in MessageTokenLists
    /\ sender_id \in {{c} : c \in Clients}
    /\ mlast = Op("_set_sender_id", Ok, << >>)
    /\ error_state = {}
    /\ \E sender \in sender_id :
          token_id = [t \in Tokens |->
                        IF t \notin Range(tokens_to_add) THEN NoId
                        ELSE IF t = "t1" THEN NextId(sender, 0)
                        ELSE NextId(sender, 1)]
    /\ token_reg = [t \in Tokens |-> Unregistered]
    /\ world_tokens = EmptyDict
    /\ world_locked = FALSE
    /\ num_ids_assigned = [a \in Factories |-> 0]
    /\ overrides = TRUE
    /\ wlast = Op("init", Ok, << >>)
    /\ wret = None
    /\ wanswer = None
    /\ whooks = << >>
    /\ wseen = {}
    /\ world_before = {}
    /\ accepted = FALSE
    /\ checker = {}
    /\ inbox = [c \in Clients |-> << >>]
    /\ ran = [c \in Clients |-> IF {c} = sender_id THEN <<"_execute">> ELSE << >>]
    /\ LaterInit

\* The authoritative side checks the message against its world with the id
\* factory of the sender, gives a rejected message its error state and
\* relays; the participants take what arrives.
RemoteNext ==
    \/ \E sender \in sender_id, answer \in BOOLEAN :
          /\ wlast.op = "init"
          /\ check(sender, answer)
    \/ \E soft \in BOOLEAN :
          /\ wlast.op = "_check"
          /\ wret = "False"
          /\ set_error_state(soft)
    \/ relay
    \/ \E c \in Clients : client_receive(c)

SpecRemote == RemoteInit /\ [][RemoteNext]_vars

\* A timer whose callers publish with a delay and whose loop ticks.
TimerNext ==
    \/ \E f \in Flavors, delay \in Delays : Timer_publish(f, delay)
    \/ \E time \in Times : Timer_deliver(time)

SpecTimer == Init /\ [][TimerNext]_vars

\* The constructors and methods of the exchanges and of the conversation,
\* called as a program that builds a conversation calls them.
ExchangeNext ==
    \/ \E e \in BaseExchanges : Exchange_init(e)
    \/ \E e \in BaseExchanges : Exchange_enter(e)
    \/ \E e \in Exchanges : Exchange_update(e)
    \/ \E e \in Exchanges : Exchange_exit(e)
    \/ \E message \in Contents : Inform_init(message)
    \/ Inform_enter
    \/ Request_init
    \/ \E err \in {TypeError, AttributeError} : Reply_init(err)
    \/ \E exchanges \in ExchangeLists : Conversation_init(exchanges)

SpecExchanges == Init /\ [][ExchangeNext]_vars

\* The ids the tests give the two tokens.
TestId(x) == IF x = "t1" THEN NextId(1, 0) ELSE NextId(1, 1)

\* A world with any of the two tokens registered, and a serializer and a
\* deserializer for it.
SerializerWorldInit ==
    /\ ForumInit
    /\ MessageInit
    /\ LaterInit
    /\ \E R \in SUBSET Tokens :
          /\ token_id = [x \in Tokens |-> IF x \in R THEN TestId(x) ELSE NoId]
          /\ token_reg = [x \in Tokens |->
                            IF x \in R THEN InTheWorld ELSE Unregistered]
          /\ world_tokens = [i \in {TestId(x) : x \in R} |->
                               CHOOSE x \in R : TestId(x) = i]
    /\ error_state = {}
    /\ world_locked = TRUE
    /\ num_ids_assigned = [a \in Factories |-> 0]
    /\ overrides = FALSE
    /\ wlast = Op("init", Ok, << >>)
    /\ wret = None
    /\ wanswer = None
    /\ whooks = << >>
    /\ wseen = {}
    /\ world_before = {}
    /\ accepted = FALSE
    /\ checker = {}
    /\ inbox = [c \in Clients |-> << >>]
    /\ ran = [c \in Clients |-> << >>]

SerializerNext ==
    \/ \E x \in Tokens, color \in Colors : set_attribute(x, color)
    \/ \E x \in Instances : pack_token(x)
    \/ \E x \in Instances : pack_message(x)
    \/ unpack

SpecSerializer == SerializerWorldInit /\ [][SerializerNext]_vars

\* The targets a tag can carry: that of the forum and that of another
\* participant.
Targets == {ForumTarget, ForumTarget + 1}

\* Packets whose tags carry any of the targets.
TargetPackets == Targets \X {2} \X Tickers \X RemoteFlavors

\* A locked forum whose pipes hand over packets tagged with any target.
TargetsNext ==
    \/ \E f \in Flavors : Publish(f)
    \/ UpdateBegin
    \/ UpdateStep(TargetPackets, MaxPackets)

SpecTargets == LockedInit /\ [][TargetsNext]_vars

\* Whether deliver() of the pipe has returned the stamp of the given ticker:
\* the pipe has issued it and no longer buffers it.
Returned(p, tk) ==
    /\ tk \in 1..ticker[p]
    /\ \A i \in 1..Len(outbox[p]) : outbox[p][i][1][2] # Identity(p)
                                    \/ outbox[p][i][1][3] # tk

\* A peer relays back, over the pipe of the running loop, a message the
\* forum has sent: the packet carries the stamp the message was sent under.
ReceiveEcho(tk, f) ==
    /\ \E p \in Range(pipes) : Returned(p, tk)
    /\ ReceivePacket(ForumTarget, ForumIdentity, tk, f)

\* A locked forum that publishes, and whose peers relay back what it sent.
EchoNext ==
    \/ \E f \in Flavors : Published(f, MaxEchoed)
    \/ UpdateBegin
    \/ /\ nRecv < MaxPackets
       /\ \E tk \in 1..MaxEchoed, f \in RemoteFlavors : ReceiveEcho(tk, f)
    \/ ReceiveEnd
    \/ DrainOne
    \/ DrainEmpty
    \/ \E k \in 0..(MaxEchoed + MaxPackets) : FlushPipe(k)

SpecEcho == LockedInit /\ [][EchoNext]_vars

\* The game, from the construction of its world on: the referee picks the
\* number, and the players guess.
GuessNext ==
    \/ \E n \in Picks(PickLower, PickUpper) : PickNumber_on_execute(n)
    \/ \E player \in Players, guess \in Guesses :
          GuessNumber_on_execute(player, guess)

SpecGuess == Init /\ [][GuessNext]_vars

\* A message that is changed, pickled and rebuilt from what was pickled.
PickleNext ==
    \/ \E t \in Tokens \cup {NonToken} : add_token(t)
    \/ \E t \in Tokens \cup {NonToken} : remove_token(t)
    \/ \E id \in ActorIds : set_sender_id(id)
    \/ getstate
    \/ setstate

SpecPickle == Init /\ [][PickleNext]_vars

\* The forums of the network publish, and the update() of each of them is
\* called again and again.
NetNext ==
    \/ \E f \in Forums : NetPublish(f)
    \/ \E f \in Forums, cuts \in Cuts : NetUpdate(f, cuts)

SpecNet ==
    /\ Init
    /\ [][NetNext]_vars
    /\ \A f \in Forums : WF_vars(\E cuts \in Cuts : NetUpdate(f, cuts))

(* ------------------------------- claims ------------------------------- *)

\* The steps of the specifications, recognised by what only they change.
IsReceive == nRecv' = nRecv + 1
IsPublish == nPub' = nPub + 1
IsSubscribe == nSubs' = nSubs + 1
IsDeliver == handled' # handled
IsUnlock == last'.op = "unlock"
IsFailedUpdate == last'.op = "update" /\ ~locked

\* C1: an incoming packet (target, origin, ticker) is queued if and only if
\* ticker > history.get(origin, 0); when it is queued history[origin] becomes
\* ticker and nothing else of the history changes; when it is not, nothing
\* is queued and the history is unchanged.
C1_ReceiveFilter ==
    [][IsReceive =>
         LET publication == last'.arg
             origin == publication[2][2]
             tk == publication[2][3]
         IN  IF tk > DictGet(history, origin, 0)
             THEN /\ publications' = Append(publications, publication)
                  /\ DOMAIN history' = DOMAIN history \cup {origin}
                  /\ history'[origin] = tk
                  /\ \A o \in DOMAIN history \ {origin} : history'[o] = history[o]
             ELSE /\ publications' = publications
                  /\ history' = history]_vars

\* A packet older than one already seen from its origin has just been dropped.
C1_Witness ==
    /\ last.op = "receive"
    /\ last.arg[2][3] < DictGet(history, last.arg[2][2], 0)
    /\ \A i \in 1..Len(publications) : publications[i] # last.arg

\* C2: the messages of one origin are handed to the subscribers in strictly
\* increasing ticker order, and so none of them twice: a message handed over
\* carries a ticker above that of every message of its origin handed over before.
C2_PerOriginOrder ==
    [][IsDeliver /\ Head(publications)[2] # NoTag =>
         LET key == Key(Head(publications))
         IN  \A k \in DOMAIN handled : k[1] = key[1] => k[2] < key[2]]_vars

\* C3: history[origin] never decreases during update().
C3_HistoryMonotone ==
    [][\A o \in DOMAIN history :
           o \in DOMAIN history' /\ history'[o] >= history[o]]_vars

\* C4: unlock() leaves the forum unlocked with no subscriptions and no pending
\* publications and leaves pipes and history alone; and a callback whose
\* subscription was cleared is not invoked until it is subscribed again.
C4_UnlockResets ==
    /\ [][IsUnlock =>
            /\ ~locked'
            /\ subscriptions' = EmptyDict
            /\ publications' = << >>
            /\ pipes' = pipes
            /\ history' = history]_vars
    /\ [](\A i \in 1..Len(invoked) :
            <<invoked[i][2].flavor, invoked[i][1]>> \notin stale)

\* A message is delivered whose type had a subscriber before the unlock().
C4_Witness ==
    /\ last.op = "deliver"
    /\ \E cb \in Callbacks : <<last.arg[3].flavor, cb>> \in stale
    /\ pipes # << >>

\* C5: subscribe() on a locked forum fails with an assertion and leaves the
\* subscriptions unchanged; on an unlocked forum it appends the callback to
\* the end of the list of its flavor and changes no other list.
C5_SubscribeWhileUnlocked ==
    [][IsSubscribe =>
         LET f == last'.arg[1]
             cb == last'.arg[2]
         IN  IF locked
             THEN /\ last'.err = AssertionError
                  /\ subscriptions' = subscriptions
             ELSE /\ last'.err = Ok
                  /\ DOMAIN subscriptions' = DOMAIN subscriptions \cup {f}
                  /\ subscriptions'[f] =
                         Append(DictGet(subscriptions, f, << >>), cb)
                  /\ \A g \in DOMAIN subscriptions \ {f} :
                         subscriptions'[g] = subscriptions[g]]_vars

\* subscribe() has just failed on a locked forum that has subscriptions.
C5_Witness ==
    /\ last.op = "subscribe"
    /\ last.err = AssertionError
    /\ subscriptions # EmptyDict

\* C6: update() on an unlocked forum fails with an assertion and receives,
\* delivers and sends nothing; no callback runs, and no update() is under way,
\* while the forum is unlocked.
C6_UpdateOnlyWhileLocked ==
    /\ [][IsFailedUpdate =>
            /\ last'.err = AssertionError
            /\ pc' = "idle"
            /\ invoked' = << >>
            /\ UNCHANGED <<pipes, history, subscriptions, publications, outbox,
                           ticker, nRecv, handled>>]_vars
    /\ [](invoked # << >> => locked)
    /\ [](pc # "idle" => locked)

\* update() has just failed with a message pending for a subscriber.
C6_Witness ==
    /\ last.op = "update"
    /\ last.err = AssertionError
    /\ publications # << >>
    /\ CallbacksFor(subscriptions, publications[1][3]) # << >>

\* C7: publish() only appends (None, None, message) to the pending queue: it
\* runs no callback, hands nothing to the subscribers and gives nothing to a pipe.
C7_PublishDefers ==
    [][IsPublish =>
         /\ last'.arg[1] = None
         /\ last'.arg[2] = NoTag
         /\ publications' = Append(publications, last'.arg)
         /\ invoked' = << >>
         /\ UNCHANGED <<handled, outbox, ticker, history>>]_vars

\* A message was published on a locked forum with a pipe and a subscriber for it.
C7_Witness ==
    /\ last.op = "publish"
    /\ locked
    /\ pipes # << >>
    /\ CallbacksFor(subscriptions, last.arg[3]) # << >>
    /\ publications # << >>

\* C8: delivering a message invokes the callbacks subscribed to its type, each
\* with that message, in the order of their subscription, and no other callback.
C8_DispatchByType ==
    [][IsDeliver =>
         LET message == Head(publications)[3]
             subscribed == IF message.flavor \in DOMAIN subscriptions
                           THEN subscriptions[message.flavor]
                           ELSE << >>
         IN  /\ Len(invoked') = Len(subscribed)
             /\ \A i \in 1..Len(subscribed) :
                    invoked'[i] = <<subscribed[i], message>>]_vars

\* Two different callbacks of one type have just been invoked.
C8_Witness ==
    /\ last.op = "deliver"
    /\ Len(invoked) = 2
    /\ invoked[1][1] # invoked[2][1]

\* The number of times a locally published message is on the pending queue.
Pending(id) ==
    Cardinality({i \in 1..Len(publications) :
                   publications[i][2] = NoTag /\ publications[i][3].id = id})

\* C9: on a forum that stays locked, every published message is at all times
\* either still pending, once, or was handed to the subscribers, once, whatever
\* the position of the running update() was when it was published; and, as
\* update() keeps being called, every published message is handed over.
C9_PublishedExactlyOnce ==
    /\ [](\A id \in 1..nPub : Pending(id) + DictGet(handled, <<0, id>>, 0) = 1)
    /\ \A id \in 1..MaxPub :
           (nPub >= id) ~> (DictGet(handled, <<0, id>>, 0) = 1)

\* A message published while update() was past its delivery loop is pending.
C9_Witness ==
    /\ last.op = "publish"
    /\ pc = "flush"
    /\ Pending(nPub) = 1

\* C10: on a sent message add_token, add_tokens, remove_token and
\* remove_tokens fail with MessageAlreadySent and leave both lists unchanged;
\* on an unsent message they append to their list and leave the other alone.
C10_TokenListsFrozenOnceSent ==
    [][/\ mlast'.op \in {"add_token", "add_tokens", "remove_token", "remove_tokens"}
       /\ mlast'.err # ApiUsageError
       => LET given == mlast'.arg
              adds == mlast'.op \in {"add_token", "add_tokens"}
          IN  IF sender_id # {}
              THEN /\ mlast'.err = MessageAlreadySent
                   /\ UNCHANGED <<tokens_to_add, tokens_to_remove>>
              ELSE /\ mlast'.err = Ok
                   /\ tokens_to_add' =
                          IF adds THEN tokens_to_add \o given ELSE tokens_to_add
                   /\ tokens_to_remove' =
                          IF adds THEN tokens_to_remove
                          ELSE tokens_to_remove \o given]_vars

\* A message that was given tokens, then sent, has just refused one more.
C10_Witness ==
    /\ mlast.err = MessageAlreadySent
    /\ tokens_to_add # << >>
    /\ tokens_to_remove # << >>

\* C11: _check returns False, and on_check is not invoked, whenever a token
\* to add is already in the world, or the id of a token to add is not one of
\* the checking id factory, or a token to remove is not in the world;
\* otherwise on_check is invoked once and _check returns what it answered.
C11_CheckStructure ==
    [][wlast'.op = "_check" =>
         \E a \in checker' :
            LET rejected ==
                    \/ \E i \in 1..Len(tokens_to_add) :
                          \/ token_id[tokens_to_add[i]] \in DOMAIN world_tokens
                          \/ ~Contains(a, token_id[tokens_to_add[i]])
                    \/ \E i \in 1..Len(tokens_to_remove) :
                          token_id[tokens_to_remove[i]] \notin DOMAIN world_tokens
            IN  IF rejected
                THEN wret' = "False" /\ whooks' = << >>
                ELSE whooks' = <<"on_check">> /\ wret' = wanswer']_vars

\* _check has just rejected a message only because a token to add carries
\* an id of another actor's factory.
C11_Witness ==
    /\ wlast.op = "_check"
    /\ wret = "False"
    /\ whooks = << >>
    /\ tokens_to_add # << >>
    /\ tokens_to_remove # << >>
    /\ IdsOf(tokens_to_add) \cap DOMAIN world_tokens = {}
    /\ IdsOf(tokens_to_remove) \subseteq DOMAIN world_tokens
    /\ NoId \notin IdsOf(tokens_to_add)

C13_UndoRestores ==
    [][/\ wlast.op = "_execute"
       /\ wlast.err = Ok
       /\ wlast'.op = "_handle_hard_sync_error"
       => /\ DOMAIN world_tokens' = world_before
          /\ IdsOf(tokens_to_add) \cap DOMAIN world_tokens' = {}
          /\ \A i \in 1..Len(tokens_to_add) :
                token_reg'[tokens_to_add[i]] # InTheWorld
          /\ \A i \in 1..Len(tokens_to_remove) :
                LET token == tokens_to_remove[i]
                IN  /\ token_id'[token] = token_id[token]
                    /\ token_id[token] \in DOMAIN world_tokens'
                    /\ world_tokens'[token_id[token]] = token
                    /\ token_reg'[token] = InTheWorld
          /\ wlast'.err \in {Ok, UnhandledSyncError}]_vars

\* A message that added and removed tokens has just been undone.
C13_Witness ==
    /\ wlast.op = "_handle_hard_sync_error"
    /\ tokens_to_add # << >>
    /\ tokens_to_remove # << >>
    /\ wlast.err = Ok

\* C14: for a message type that does not define on_hard_sync_error,
\* _handle_hard_sync_error calls the hook and ends with UnhandledSyncError;
\* for a type that defines it, it ends normally.
C14_UnhandledSyncError ==
    [][wlast'.op = "_handle_hard_sync_error" =>
         /\ whooks' = <<"on_hard_sync_error">>
         /\ wlast'.err = IF overrides THEN Ok ELSE UnhandledSyncError]_vars

\* The hard sync error of a message without on_hard_sync_error has just
\* been handled, after its tokens were put back.
C14_Witness ==
    /\ wlast.op = "_handle_hard_sync_error"
    /\ wlast.err = UnhandledSyncError
    /\ ~overrides
    /\ tokens_to_remove # << >>

\* C15: has_soft_sync_error and has_hard_sync_error are never both true;
\* both are false on a new message and stay as they are under every
\* operation but _set_error_state; after _set_error_state exactly one is
\* true: soft if on_check_for_soft_sync_error answered true, hard otherwise.
C15_ErrorState ==
    /\ ~has_soft_sync_error /\ ~has_hard_sync_error
    /\ [](~(has_soft_sync_error /\ has_hard_sync_error))
    /\ [][IF wlast'.op = "_set_error_state"
          THEN /\ has_soft_sync_error' # has_hard_sync_error'
               /\ has_soft_sync_error' <=> (wanswer' = "True")
          ELSE /\ has_soft_sync_error' = has_soft_sync_error
               /\ has_hard_sync_error' = has_hard_sync_error]_vars

\* A rejected message has just been tagged hard: the hook answered false.
C15_Witness ==
    /\ wlast.op = "_set_error_state"
    /\ has_hard_sync_error
    /\ wanswer = "False"
    /\ whooks = <<"on_check_for_soft_sync_error">>

\* The participants that did not send the message.
Others == {c \in Clients : {c} # sender_id}

\* C16: a message the authoritative side tagged hard reaches no participant
\* but its sender, and only the sender, and nobody else, runs the hard sync
\* undo; a message it tagged soft, once relayed, reaches every other
\* participant, and each of them runs _execute and then the soft sync hook.
C16_SoftRelayedHardNot ==
    /\ \A c \in Others :
          /\ "_handle_hard_sync_error" \notin Range(ran[c])
          /\ error_state = {HARD_SYNC_ERROR} => inbox[c] = << >> /\ ran[c] = << >>
    /\ error_state = {HARD_SYNC_ERROR} /\ wlast.op = "relay" =>
          \A c \in Clients \ Others :
             \/ inbox[c] = <<{HARD_SYNC_ERROR}>> /\ ran[c] = <<"_execute">>
             \/ /\ inbox[c] = << >>
                /\ ran[c] = <<"_execute", "_handle_hard_sync_error">>
    /\ error_state = {SOFT_SYNC_ERROR} /\ wlast.op = "relay" =>
          \A c \in Others :
             \/ inbox[c] = <<{SOFT_SYNC_ERROR}>> /\ ran[c] = << >>
             \/ /\ inbox[c] = << >>
                /\ ran[c] = <<"_execute", "_handle_soft_sync_error">>

\* All other participants have run the soft sync hook of a relayed message.
C16_Witness ==
    /\ error_state = {SOFT_SYNC_ERROR}
    /\ \A c \in Others : ran[c] = <<"_execute", "_handle_soft_sync_error">>
    /\ tokens_to_add # << >>

\* The token the last call was made on is registered in the world.
Methods == {"read_only", "read_write", "before_world"}
Registered(token) ==
    /\ token_id[token] \in DOMAIN world_tokens
    /\ world_tokens[token_id[token]] = token

\* C17: whatever was done to the token and the world before, read_only()
\* succeeds, and read_write() succeeds if the token is registered in the
\* world and the world is unlocked, and fails with a contract violation
\* otherwise.
C17_ReadWriteNeedsUnlockedWorld ==
    [][LET token == wlast'.arg[1]
       IN  /\ wlast'.op = "read_only" => wlast'.err = Ok
           /\ wlast'.op = "read_write" =>
                 wlast'.err = IF Registered(token) /\ ~world_locked
                              THEN Ok
                              ELSE ApiUsageError]_vars

\* read_write() has just succeeded on a token of the unlocked world, while
\* another token is removed from it.
C17_Witness ==
    /\ wlast.op = "read_write"
    /\ wlast.err = Ok
    /\ ~world_locked
    /\ Registered(wlast.arg[1])
    /\ \E other \in Tokens : token_reg[other] = Removed

\* C18: before_world() succeeds on a token that is not registered and was
\* not removed, or was reset since, and on a token registered in an unlocked
\* world; it fails with a contract violation on a token registered in a
\* locked world and on a removed token that was not reset.
C18_BeforeWorld ==
    [][wlast'.op = "before_world" =>
         LET token == wlast'.arg[1]
         IN  wlast'.err =
                IF Registered(token)
                THEN IF world_locked THEN ApiUsageError ELSE Ok
                ELSE IF token_reg[token] = Removed THEN ApiUsageError ELSE Ok]_vars

\* before_world() has just failed on a registered token: the world is locked.
C18_Witness ==
    /\ wlast.op = "before_world"
    /\ wlast.err = ApiUsageError
    /\ Registered(wlast.arg[1])
    /\ world_locked

\* C19: _add_token fails with a contract violation, and changes neither the
\* world nor any token, for a value that is not a token, for a token without
\* id and for a token that is in the world; any other token is then in the
\* world under its id, and nothing else of the world changes.
C19_AddTokenRejects ==
    [][wlast'.op = "_add_token" =>
         LET x == wlast'.arg[1]
         IN  IF \/ x \notin Tokens
                \/ token_id[x] = NoId
                \/ Registered(x)
             THEN /\ wlast'.err = ApiUsageError
                  /\ UNCHANGED <<world_tokens, token_id, token_reg>>
             ELSE /\ wlast'.err = Ok
                  /\ world_tokens' = DictSet(world_tokens, token_id[x], x)
                  /\ token_reg'[x] = InTheWorld
                  /\ token_id' = token_id]_vars

\* A token that is in the world has just been added again, and refused.
C19_Witness ==
    /\ wlast.op = "_add_token"
    /\ wlast.err = ApiUsageError
    /\ wlast.arg[1] \in Tokens
    /\ Registered(wlast.arg[1])

\* C20: on a removed token that was not reset only read_only() succeeds;
\* removal and reset_registration() keep the id of the token;
\* reset_registration() makes it an unregistered token, on which
\* before_world() succeeds and read_write() fails, and adding it then
\* registers it under the id it had.
C20_ResetForReuse ==
    [][LET token == wlast'.arg[1]
       IN  /\ wlast'.op \in Methods /\ token_reg[token] = Removed =>
                 (wlast'.err = Ok <=> wlast'.op = "read_only")
           /\ wlast'.op \in {"_remove_token", "reset_registration"} =>
                 token_id' = token_id
           /\ wlast'.op = "reset_registration" =>
                 /\ wlast'.err = Ok
                 /\ token_reg'[token] = Unregistered
                 /\ world_tokens' = world_tokens
           /\ wlast.op = "reset_registration" /\ wlast.arg = wlast'.arg =>
                 /\ wlast'.op = "before_world" => wlast'.err = Ok
                 /\ wlast'.op = "read_write" => wlast'.err = ApiUsageError
                 /\ wlast'.op = "_add_token" =>
                       /\ wlast'.err = Ok
                       /\ world_tokens'[token_id[token]] = token
                       /\ token_reg'[token] = InTheWorld]_vars

\* A removed token has just been reset: it is unregistered, out of the
\* world, and has the id it was given.
C20_Witness ==
    /\ wlast.op = "reset_registration"
    /\ \E token \in Tokens :
          /\ wlast.arg = <<token>>
          /\ token_reg[token] = Unregistered
          /\ token_id[token] # NoId
          /\ ~Registered(token)

\* C27: step 2 of update() hands each publication it takes from the queue to
\* every pipe of the forum except the pipe it arrived from: a publication
\* that arrived from a pipe is resent under the tag it arrived with, a local
\* publication is sent under a fresh stamp of the pipe, and the buffer of the
\* pipe of arrival, like that of every pipe outside the forum, is untouched.
C27_ForwardExceptArrival ==
    [][IsDeliver =>
         LET publication == Head(publications)
             sender == publication[1]
             tag == publication[2]
             message == publication[3]
         IN  \A p \in AllPipes :
                IF p \in Range(pipes) /\ p # sender
                THEN /\ Len(outbox'[p]) = Len(outbox[p]) + 1
                     /\ SubSeq(outbox'[p], 1, Len(outbox[p])) = outbox[p]
                     /\ outbox'[p][Len(outbox'[p])][2] = message
                     /\ IF tag # NoTag
                        THEN /\ outbox'[p][Len(outbox'[p])][1] = tag
                             /\ ticker'[p] = ticker[p]
                        ELSE /\ outbox'[p][Len(outbox'[p])][1][2] = Identity(p)
                             /\ ticker'[p] = ticker[p] + 1
                ELSE /\ outbox'[p] = outbox[p]
                     /\ ticker'[p] = ticker[p]]_vars

\* A publication that arrived from P1 has just been resent to P2 under its
\* tag, and P1 was handed nothing.
C27_Witness ==
    /\ last.op = "deliver"
    /\ pipes = <<"P1", "P2">>
    /\ last.arg[1] = "P1"
    /\ outbox["P1"] = << >>
    /\ outbox["P2"] # << >>
    /\ outbox["P2"][Len(outbox["P2"])] = <<last.arg[2], last.arg[3]>>

\* C28: update() leaves the loop over the queue only when the queue is
\* empty, and nothing but publish() puts a message on the queue after that;
\* publish() puts its message at the tail of the queue and the loop takes the
\* head, so a message published while the loop runs is handed to the
\* subscribers in that update(), after the messages queued before it.
C28_DrainsFully ==
    [][/\ pc = "drain" /\ pc' # "drain" =>
             publications = << >> /\ publications' = << >>
       /\ IsPublish => publications' = Append(publications, last'.arg)
       /\ IsDeliver =>
             /\ pc = "drain"
             /\ last'.arg = Head(publications)
             /\ publications' = Tail(publications)
       /\ pc = "flush" /\ ~IsPublish => publications' = publications]_vars

\* A message was published while the loop over the queue runs and a message
\* queued before it is still waiting: the loop has both to hand over.
C28_Witness ==
    /\ pc = "drain"
    /\ last.op = "publish"
    /\ Len(publications) = 2
    /\ publications[2] = last.arg

\* C29: teardown() leaves the forum without pipes, history, subscriptions and
\* publications, and unlocked, and does nothing to a pipe; a forum with no
\* history accepts a packet of any ticker above 0, so after a teardown, a
\* setup and a lock, update() takes the tickers of a peer from the start again.
C29_TeardownResets ==
    [][/\ last'.op = "teardown" =>
             /\ pipes' = << >>
             /\ history' = EmptyDict
             /\ subscriptions' = EmptyDict
             /\ publications' = << >>
             /\ ~locked'
             /\ UNCHANGED <<registered, outbox, ticker>>
       /\ IsReceive /\ history = EmptyDict =>
             /\ last'.arg[2][3] > 0
             /\ publications' = Append(publications, last'.arg)
             /\ history' = DictSet(EmptyDict, last'.arg[2][2], last'.arg[2][3])]_vars

\* The packet of ticker 1 was handed to the subscribers, and after a teardown
\* the same packet has been accepted again.
C29_Witness ==
    /\ last.op = "receive"
    /\ nRecv = 2
    /\ Key(last.arg) \in DOMAIN handled
    /\ publications = <<last.arg>>
    /\ history = DictSet(EmptyDict, 2, 1)

\* C21: unpacking what pack() made of a token registered in the world gives
\* that very instance; unpacking what it made of an unregistered token whose
\* parent is registered gives a new instance with the attribute of the
\* original and the very parent of the original, and leaves the original as
\* it was; the same holds for the token of a packed message.
C21_RoundTrip ==
    [][slast'.op = "unpack" /\ packed # << >> =>
         \A x \in source :
            \E d \in unpacked' :
               /\ unpacked' = {d}
               /\ IF x \in Tokens /\ Registered(x)
                  THEN /\ d = x
                       /\ allocated' = allocated
                  ELSE /\ d # x
                       /\ d \notin Tokens \cup allocated
                       /\ attribute'[d] = attribute[x]
                       /\ parent'[d] = parent[x]
               /\ attribute'[x] = attribute[x]
               /\ parent'[x] = parent[x]]_vars

\* A message carrying the unregistered blue child of a registered token was
\* packed and unpacked: the token of the new message is a new blue instance
\* with the same parent.
C21_Witness ==
    /\ slast = Op("unpack", Ok, <<"message">>)
    /\ source = {"t2"}
    /\ ~Registered("t2")
    /\ Registered("t1")
    /\ \E d \in Copies :
          /\ unpacked = {d}
          /\ attribute[d] = "blue"
          /\ parent[d] = {"t1"}

\* C22: a conversation enters every exchange it is told to execute and adds
\* it to its active exchanges: the exchanges it is constructed with and, at
\* each update(), after updating the client and every active exchange and
\* exiting every complete one, the successors of the complete ones.
C22_UpdateActivates ==
    [][clast'.op = "Conversation" =>
         /\ clast'.err = Ok
         /\ TheConversation \in built'
         /\ \A e \in Range(clast'.arg) : e \in client_groups']_vars

\* C23: an Inform is complete from its construction on, and entering it
\* puts its one message on the queue of the client, once.
C23_InformFireAndForget ==
    [][/\ TheInform \in built' => complete'[TheInform]
       /\ clast'.op = "enter" /\ clast'.arg = <<TheInform>> =>
             /\ clast'.err = Ok
             /\ \E message \in inform_message :
                   client_queue' = Append(client_queue, message)]_vars

\* C24: a Request can be constructed; it is not complete, and nothing is on
\* the queue of the client, before it is entered.
C24_RequestAwaitsResponse ==
    [][clast'.op = "Request" =>
         /\ clast'.err = Ok
         /\ TheRequest \in built'
         /\ ~complete'[TheRequest]
         /\ client_queue' = client_queue]_vars

\* C25: a Reply can be constructed, and puts nothing on the queue of the
\* client before a message of its incoming type arrives.
C25_ReplyAwaitsRequest ==
    [][clast'.op = "Reply" =>
         /\ clast'.err = Ok
         /\ TheReply \in built'
         /\ client_queue' = client_queue]_vars

\* C30: publish(message, delay) puts the message on the pending list and not
\* on the queue; deliver(time) puts on the queue, in order, every pending
\* message whose delay less the time is <= 0, and keeps every other message
\* pending with its delay less the time.
C30_PromotedWhenDue ==
    [][/\ tlast'.op = "publish" =>
             /\ publications' = publications
             /\ Len(pending') = Len(pending) + 1
       /\ tlast'.op = "deliver" =>
             LET time == tlast'.time
                 due == {i \in 1..Len(pending) : pending[i][1] - time <= 0}
                 queued == {publications'[i][3] :
                              i \in (Len(publications) + 1)..Len(publications')}
             IN  /\ queued = {pending[i][2] : i \in due}
                 /\ Range(pending') =
                       {<<pending[i][1] - time, pending[i][2]>> :
                          i \in (1..Len(pending)) \ due}]_vars

\* C33: _execute run on a message that _check has just accepted, the world
\* being as it was checked, raises no contract violation, whatever tokens
\* the lists of the message hold and however often.
C33_CheckImpliesSafeExecute ==
    [][accepted /\ wlast'.op = "_execute" => wlast'.err = Ok]_vars

\* C34: in an update(), the receive() of every pipe is called with the
\* target of the forum, and a local message is sent to every pipe under a
\* stamp that carries the target of the forum, whatever the tags of the
\* packets received before carried.
C34_OwnTarget ==
    [][/\ pc = "idle" /\ pc' = "recv" => target' = ForumTarget
       /\ pc = "recv" /\ pc' = "recv" /\ idx' = idx + 1 => target = ForumTarget
       /\ IsDeliver /\ Head(publications)[2] = NoTag =>
             \A p \in Range(pipes) :
                outbox'[p][Len(outbox'[p])][1][1] = ForumTarget]_vars

\* C35: a packet that echoes a stamp the forum has issued, and that
\* deliver() of a pipe has returned, is dropped by update(): it is not
\* queued, so the message is not handed to the subscribers of the forum a
\* second time.
C35_EchoDropped ==
    [][IsReceive /\ last'.arg[2][2] = ForumIdentity =>
         publications' = publications]_vars

\* C36: a conversation holds the exchanges it was given as its active
\* exchanges, each of them once, so that its update() calls exit each of
\* them once when it completes, enter each successor once, and drop the
\* completed exchange from the active exchanges.
C36_ExitedAndEnteredOnce ==
    [][clast'.op = "Conversation" => active' = {clast'.arg}]_vars

\* Whether the callback of forum f was handed message id under a stamp of
\* the forum that published it.
NetHeard(f, id) ==
    \E i \in 1..Len(net[f].delivered) :
        /\ net[f].delivered[i][2] = id
        /\ net[f].delivered[i][1] # NoTag
        /\ net[f].delivered[i][1][2] = NetIdentity(publishers[id])

\* The stamped messages handed to the callback of a forum carry, origin by
\* origin, larger and larger tickers.
NetOrdered ==
    \A f \in Forums : \A i, j \in 1..Len(net[f].delivered) :
        LET a == net[f].delivered[i][1]
            b == net[f].delivered[j][1]
        IN  i < j /\ a # NoTag /\ b # NoTag /\ a[2] = b[2] => a[3] < b[3]

\* C31: in a network of locked forums whose update() is called again and
\* again, a message published on one forum is eventually handed to the
\* subscribers of every other forum, directly or through a relay, under a
\* stamp of its origin, and the tickers of one origin grow from one message
\* handed over to the next.
C31_EventuallyEverywhere ==
    /\ \A id \in 1..MaxNetPub :
          (Len(publishers) >= id) ~>
              (/\ Len(publishers) >= id
               /\ \A f \in Forums \ {publishers[id]} : NetHeard(f, id))
    /\ []NetOrdered

\* C32: a right guess makes the guessing player the winner and ends the
\* game; a guess below the number makes the lower bound the larger of the
\* guess and the old lower bound and keeps the upper bound; a guess above
\* the number makes the upper bound the smaller of the guess and the old
\* upper bound and keeps the lower bound.  So the lower bound never falls,
\* the upper bound never rises, and the number stays between the bounds.
C32_GuessNarrows ==
    [][glast'.op = "GuessNumber" =>
         LET guess == glast'.guess
         IN  /\ guess = number => winner' = glast'.player /\ game_over'
             /\ guess < number =>
                   /\ lower_bound' = (IF guess > lower_bound THEN guess
                                      ELSE lower_bound)
                   /\ upper_bound' = upper_bound
             /\ guess > number =>
                   /\ upper_bound' = (IF guess < upper_bound THEN guess
                                      ELSE upper_bound)
                   /\ lower_bound' = lower_bound
             /\ lower_bound' >= lower_bound
             /\ upper_bound' <= upper_bound
             /\ (lower_bound < number /\ number < upper_bound =>
                   lower_bound' < number' /\ number' < upper_bound')]_vars

\* A guess below the number has raised the lower bound after a guess above
\* the number has lowered the upper bound.
C32_Witness ==
    /\ glast.op = "GuessNumber"
    /\ glast.guess < number
    /\ lower_bound = glast.guess
    /\ lower_bound > PickLower
    /\ upper_bound < PickUpper

\* C37: a message rebuilt by __setstate__ counts as sent, so that add_token
\* and remove_token of a token fail on it with MessageAlreadySent, whether
\* the message pickled had a sender_id or not; and its token lists are the
\* lists that were pickled, an empty list for a list the state leaves out.
C37_RebuiltCountsAsSent ==
    [][/\ mlast'.op = "__setstate__" =>
             /\ was_sent'
             /\ \E state \in pickled :
                   /\ Entry(tokens_to_add') = state.tokens_to_add
                   /\ Entry(tokens_to_remove') = state.tokens_to_remove
       /\ was_sent_flag /\ mlast'.op \in {"add_token", "remove_token"}
             /\ mlast'.arg \in {<<t>> : t \in Tokens} =>
             mlast'.err = MessageAlreadySent]_vars

====
